---- MODULE Spec2Model ----
(***************************************************************************)
(* Model of the adaptive thermostat controller (lib/adaptive-controller.js)*)
(* and of the activation latch of the Node-RED node                        *)
(* (nodes/smart-thermostat.js).                                            *)
(*                                                                         *)
(* Number representation.  The program computes in IEEE doubles; the model *)
(* computes in fixed point:                                                *)
(*   temperatures, errors, setpoints ... 1/1000 degree   (21000 = 21.0)    *)
(*   PID gains Kp, Ki, Kd .............. 1/1000          (1000 = 1.0)      *)
(*   instants and durations ............ seconds (Date.now() / 1000)       *)
(*   integral accumulator .............. 1/1000 degree * second            *)
(*   raw setpoint inside update ........ 1/1000000 degree                  *)
(* Divisions are floored at these resolutions.                             *)
(***************************************************************************)
EXTENDS Integers, Sequences, FiniteSets, TLC

VARIABLES
    controllerConfig,   \* node closure: the config the controller was built from
    c,                  \* the AdaptiveController instance (all its fields)
    now,                \* Date.now(), in seconds
    wasHeatingActive,   \* node closure: heating latch
    wasCoolingActive,   \* node closure: cooling latch
    result,             \* what the last update returned, and the node's active output
    op,                 \* the operation that produced this state
    boostIssued,        \* the last accepted setBoost({temp, duration}) call
    steps               \* number of operations performed so far

vars == <<controllerConfig, c, now, wasHeatingActive, wasCoolingActive, result, op, boostIssued, steps>>

\* JavaScript null / undefined for a numeric field
Null == 0 - 1000000
\* JavaScript NaN
NaN == Null - 1

Abs(x) == IF x < 0 THEN 0 - x ELSE x
Min2(a, b) == IF a < b THEN a ELSE b
Max2(a, b) == IF a > b THEN a ELSE b
Sign(x) == IF x > 0 THEN 1 ELSE IF x < 0 THEN 0 - 1 ELSE 0

\* Math.round(n / d) for d > 0: the nearest integer, a tie going up
RoundDiv(n, d) == (2 * n + d) \div (2 * d)

\* value || dflt, for a numeric config value (absent or 0 are falsy)
OrDefault(v, dflt) == IF v = Null \/ v = 0 THEN dflt ELSE v

\* clamp(value, min, max) = Math.min(Math.max(value, min), max)
clamp(value, lo, hi) == Min2(Max2(value, lo), hi)

(***************************************************************************)
(* Program constants                                                       *)
(***************************************************************************)
samplesNeeded == 30
adaptationInterval == 100
trendWindowSize == 5
PerformanceCap == 1000
HistoryWindow == 3600       \* 3600000 ms
LearningTimeout == 3600     \* 3600000 ms
DefaultMinTemp == 15000
DefaultMaxTemp == 25000
DefaultTargetTemp == 21000
DefaultHysteresis == 200
DefaultSampleInterval == 60
DefaultMaxOutputChange == 500
DefaultPrecision == 500
DefaultAwayTemp == 16000
DefaultKp == 1000
DefaultKi == 20
DefaultKd == 500
KpMin == 100
KpMax == 5000
KiMin == 1
KiMax == 500
KdMin == 0
KdMax == 2000

DayNames == <<"sunday", "monday", "tuesday", "wednesday", "thursday", "friday", "saturday">>

(***************************************************************************)
(* Schedules.  A schedule object maps a weekday name to a list of slots    *)
(* {time: "HH:MM", temp}; a time string is modelled by its two numbers.    *)
(* `present' is FALSE for this.schedule === null; `default' is the         *)
(* object's `default' property, Null when it has none.                     *)
(***************************************************************************)
EmptyWeek == [d \in 1..7 |-> <<>>]
NoSchedule ==
    [present |-> FALSE, days |-> EmptyWeek, timezone |-> "local", default |-> Null]
Slot(h, m, t) == [shape |-> "slot", h |-> h, m |-> m, temp |-> t]
\* Elements of a day list that are no {time: "HH:MM", temp} objects: null, and
\* an object whose time is a number, e.g. {time: 600, temp: 21}
NullSlot == [shape |-> "null", h |-> 0, m |-> 0, temp |-> Null]
NumericTimeSlot(t) == [shape |-> "numericTime", h |-> 0, m |-> 0, temp |-> t]

\* The UTC offsets, in seconds, of the host's local zone and of the one IANA
\* zone the model names; an unknown zone name makes Intl.DateTimeFormat throw
LocalUtcOffset == 2 * 3600
WarsawUtcOffset == 1 * 3600
UtcOffset(timezone) ==
    IF timezone = "UTC" THEN 0
    ELSE IF timezone = "Europe/Warsaw" THEN WarsawUtcOffset
    ELSE LocalUtcOffset

\* getTimeInTimezone: weekday index (0 = sunday), hours and minutes of `t'.
\* Second 0 of the clock is a Sunday 00:00 UTC.
getTimeInTimezone(timezone, t) ==
    LET local == t + UtcOffset(timezone)
    IN [dayIndex |-> (local \div 86400) % 7,
        hours    |-> (local % 86400) \div 3600,
        minutes  |-> (local % 3600) \div 60]

\* const [slotHours, slotMins] = slot.time.split(':').map(Number);
\* slotHours * 60 + (slotMins || 0)
slotMinutes(slot) == slot.h * 60 + slot.m

\* The for-loop of getScheduledTemp: the last slot, in list order, whose time
\* is at or before currentTime; 0 when there is none.
RECURSIVE activeSlotIndex(_, _, _)
activeSlotIndex(daySchedule, currentTime, i) ==
    IF i = 0 THEN 0
    ELSE IF slotMinutes(daySchedule[i]) <= currentTime THEN i
    ELSE activeSlotIndex(daySchedule, currentTime, i - 1)

\* Whether getScheduledTemp throws a TypeError: reading `.time' of a null
\* element or calling `.split' on a time that is no string while walking
\* today's list, or reading `.temp' of a null last element of yesterday's list
\* when today's list is empty
getScheduledTempThrows(ctl, t) ==
    /\ ctl.schedule.present
    /\ LET tm == getTimeInTimezone(ctl.schedule.timezone, t)
           daySchedule == ctl.schedule.days[tm.dayIndex + 1]
           yesterdaySchedule == ctl.schedule.days[((tm.dayIndex + 6) % 7) + 1]
       IN IF Len(daySchedule) = 0
          THEN /\ Len(yesterdaySchedule) > 0
               /\ yesterdaySchedule[Len(yesterdaySchedule)].shape = "null"
          ELSE \E i \in 1..Len(daySchedule) :
                   daySchedule[i].shape \in {"null", "numericTime"}

\* getScheduledTemp that looks at the current weekday only
getScheduledTemp_noCarryOver(ctl, t) ==
    IF ~ctl.schedule.present THEN ctl.baseTargetTemp
    ELSE
        LET tm == getTimeInTimezone(ctl.schedule.timezone, t)
            daySchedule == ctl.schedule.days[tm.dayIndex + 1]
            currentTime == tm.hours * 60 + tm.minutes
            idx == activeSlotIndex(daySchedule, currentTime, Len(daySchedule))
        IN  IF idx > 0 THEN daySchedule[idx].temp ELSE ctl.baseTargetTemp

getScheduledTemp(ctl, t) ==
    IF ~ctl.schedule.present THEN ctl.baseTargetTemp
    ELSE
        LET tm == getTimeInTimezone(ctl.schedule.timezone, t)
            daySchedule == ctl.schedule.days[tm.dayIndex + 1]
            yesterdayIndex == (tm.dayIndex + 6) % 7
            yesterdaySchedule == ctl.schedule.days[yesterdayIndex + 1]
            currentTime == tm.hours * 60 + tm.minutes
            idx == activeSlotIndex(daySchedule, currentTime, Len(daySchedule))
        IN  IF Len(daySchedule) = 0 THEN
                IF Len(yesterdaySchedule) > 0
                THEN yesterdaySchedule[Len(yesterdaySchedule)].temp
                ELSE ctl.baseTargetTemp
            ELSE IF idx > 0 THEN daySchedule[idx].temp
            ELSE IF Len(yesterdaySchedule) > 0
                THEN yesterdaySchedule[Len(yesterdaySchedule)].temp
            ELSE ctl.baseTargetTemp

(***************************************************************************)
(* Target resolution                                                       *)
(***************************************************************************)
\* Variants of calculateEffectiveTarget with a priority slip: the away ceiling
\* applied on top of the boost; the away ceiling left out; the schedule read
\* only in operating mode "schedule"
calculateEffectiveTarget_awayOverBoost(ctl, t) ==
    LET base == IF ctl.schedule.present THEN getScheduledTemp(ctl, t)
                ELSE ctl.baseTargetTemp
        boost == IF ctl.boostActive /\ ctl.boostTemp # Null THEN ctl.boostTemp ELSE base
        eff == IF ctl.awayMode THEN Min2(boost, ctl.awayTemp) ELSE boost
    IN [ctl EXCEPT !.targetTemp = clamp(eff, ctl.minTemp, ctl.maxTemp)]
calculateEffectiveTarget_noAway(ctl, t) ==
    LET base == IF ctl.schedule.present THEN getScheduledTemp(ctl, t)
                ELSE ctl.baseTargetTemp
        eff  == IF ctl.boostActive /\ ctl.boostTemp # Null THEN ctl.boostTemp ELSE base
    IN [ctl EXCEPT !.targetTemp = clamp(eff, ctl.minTemp, ctl.maxTemp)]
calculateEffectiveTarget_scheduleModeOnly(ctl, t) ==
    LET base == IF ctl.schedule.present /\ ctl.operatingMode = "schedule"
                THEN getScheduledTemp(ctl, t)
                ELSE ctl.baseTargetTemp
        away == IF ctl.awayMode THEN Min2(base, ctl.awayTemp) ELSE base
        eff  == IF ctl.boostActive /\ ctl.boostTemp # Null THEN ctl.boostTemp ELSE away
    IN [ctl EXCEPT !.targetTemp = clamp(eff, ctl.minTemp, ctl.maxTemp)]

\* calculateEffectiveTarget without the final clamp
calculateEffectiveTarget_noClamp(ctl, t) ==
    LET base == IF ctl.schedule.present THEN getScheduledTemp(ctl, t)
                ELSE ctl.baseTargetTemp
        away == IF ctl.awayMode THEN Min2(base, ctl.awayTemp) ELSE base
        eff  == IF ctl.boostActive /\ ctl.boostTemp # Null THEN ctl.boostTemp ELSE away
    IN [ctl EXCEPT !.targetTemp = eff]

calculateEffectiveTarget(ctl, t) ==
    LET base == IF ctl.schedule.present THEN getScheduledTemp(ctl, t)
                ELSE ctl.baseTargetTemp
        away == IF ctl.awayMode THEN Min2(base, ctl.awayTemp) ELSE base
        eff  == IF ctl.boostActive /\ ctl.boostTemp # Null THEN ctl.boostTemp ELSE away
    IN [ctl EXCEPT !.targetTemp = clamp(eff, ctl.minTemp, ctl.maxTemp)]

\* Variant of checkBoostExpiry that expires the boost at its end instant
checkBoostExpiry_atEnd(ctl, t) ==
    IF ctl.boostActive /\ ctl.boostEndTime # Null /\ t >= ctl.boostEndTime
    THEN [ctl EXCEPT !.boostActive = FALSE, !.boostTemp = Null, !.boostEndTime = Null]
    ELSE ctl

checkBoostExpiry(ctl, t) ==
    IF ctl.boostActive /\ ctl.boostEndTime # Null /\ t > ctl.boostEndTime
    THEN [ctl EXCEPT !.boostActive = FALSE, !.boostTemp = Null, !.boostEndTime = Null]
    ELSE ctl

\* syncSchedule that also clears the accumulator, as setSetpoint does
syncSchedule_resetIntegral(ctl, t) ==
    [calculateEffectiveTarget(ctl, t) EXCEPT !.integral = 0]

syncSchedule(ctl, t) == calculateEffectiveTarget(ctl, t)

\* getStatus(): the target is resolved, then the status record is built from
\* the last setpoint, or from the target when no setpoint was emitted yet
getStatus(ctl, t) ==
    LET resolved == calculateEffectiveTarget(ctl, t)
    IN [ctl |-> resolved,
        status |-> [output |-> IF resolved.lastOutput # Null THEN resolved.lastOutput
                               ELSE resolved.targetTemp,
                    targetTemp |-> resolved.targetTemp]]

(***************************************************************************)
(* Constructor and setters                                                 *)
(***************************************************************************)
Constructor(config) ==
    [minTemp |-> OrDefault(config.minTemp, DefaultMinTemp),
     maxTemp |-> OrDefault(config.maxTemp, DefaultMaxTemp),
     targetTemp |-> OrDefault(config.targetTemp, DefaultTargetTemp),
     baseTargetTemp |-> OrDefault(config.targetTemp, DefaultTargetTemp),
     hysteresis |-> OrDefault(config.hysteresis, DefaultHysteresis),
     sampleInterval |-> OrDefault(config.sampleInterval, DefaultSampleInterval),
     learningEnabled |-> config.learningEnabled,
     maxOutputChange |-> OrDefault(config.maxOutputChange, DefaultMaxOutputChange),
     precision |-> OrDefault(config.precision, DefaultPrecision),
     mode |-> config.mode,
     operatingMode |-> config.operatingMode,
     schedule |-> NoSchedule,
     boostActive |-> FALSE,
     boostTemp |-> Null,
     boostEndTime |-> Null,
     awayMode |-> FALSE,
     awayTemp |-> OrDefault(config.awayTemp, DefaultAwayTemp),
     Kp |-> OrDefault(config.Kp, DefaultKp),
     Ki |-> OrDefault(config.Ki, DefaultKi),
     Kd |-> OrDefault(config.Kd, DefaultKd),
     integral |-> 0,
     lastError |-> 0,
     lastTemp |-> Null,
     lastOutput |-> Null,
     lastUpdateTime |-> Null,
     learningPhase |-> config.learningEnabled,
     temperatureHistory |-> <<>>,
     learningStartTime |-> Null,
     learningComplete |-> FALSE,
     performanceHistory |-> <<>>,
     trendWindow |-> <<>>,
     parametersChanged |-> FALSE]

\* setSetpoint(temp), temp a number that is not NaN
setSetpoint(ctl, temp) ==
    LET b == clamp(temp, ctl.minTemp, ctl.maxTemp)
    IN [ctl EXCEPT !.baseTargetTemp = b, !.targetTemp = b, !.integral = 0]

\* setOperatingMode(mode)
setOperatingMode(ctl, m) ==
    IF m \in {"manual", "schedule", "off"}
    THEN [ctl EXCEPT !.operatingMode = m, !.integral = 0]
    ELSE ctl

\* setMode that also restarts the learning phase, as reset() does
setMode_relearn(ctl, m) ==
    LET normalizedMode == IF m = "heating" THEN "heat"
                          ELSE IF m = "cooling" THEN "cool"
                          ELSE IF m = "auto" THEN "heat_cool"
                          ELSE m
    IN IF normalizedMode \in {"heat", "cool", "heat_cool"}
       THEN [ctl EXCEPT !.mode = normalizedMode, !.integral = 0,
                        !.learningPhase = ctl.learningEnabled,
                        !.learningComplete = FALSE]
       ELSE ctl

\* reset(): runtime state cleared, gains set to the literals 1.0, 0.01, 0.5
ResetKp == 1000
ResetKi == 10
ResetKd == 500
reset(ctl) ==
    [ctl EXCEPT !.integral = 0,
                !.lastError = 0,
                !.lastTemp = Null,
                !.lastOutput = Null,
                !.lastUpdateTime = Null,
                !.learningPhase = ctl.learningEnabled,
                !.temperatureHistory = <<>>,
                !.learningStartTime = Null,
                !.learningComplete = FALSE,
                !.performanceHistory = <<>>,
                !.trendWindow = <<>>,
                !.Kp = ResetKp,
                !.Ki = ResetKi,
                !.Kd = ResetKd]

\* setMode(mode), legacy names mapped first
setMode(ctl, m) ==
    LET normalizedMode == IF m = "heating" THEN "heat"
                          ELSE IF m = "cooling" THEN "cool"
                          ELSE IF m = "auto" THEN "heat_cool"
                          ELSE m
    IN IF normalizedMode \in {"heat", "cool", "heat_cool"}
       THEN [ctl EXCEPT !.mode = normalizedMode, !.integral = 0]
       ELSE ctl

\* setSchedule(schedule), schedule an object
setSchedule(ctl, s) == [ctl EXCEPT !.schedule = s]

\* setBoost(false)
clearBoost(ctl) ==
    [ctl EXCEPT !.boostActive = FALSE, !.boostTemp = Null, !.boostEndTime = Null]

\* setBoost({temp, duration}): temp in 1/1000 degree; duration is given in
\* tenths of a minute, and parseInt(duration, 10) keeps its whole minutes
setBoost(ctl, temp, durationTenths, t) ==
    LET duration == durationTenths \div 10
    IN IF duration > 0
       THEN [ctl EXCEPT !.boostActive = TRUE,
                        !.boostTemp = clamp(temp, ctl.minTemp, ctl.maxTemp),
                        !.boostEndTime = t + duration * 60]
       ELSE ctl

\* setAwayMode(false | true)
setAwayFlag(ctl, away) == [ctl EXCEPT !.awayMode = away]

\* setAwayMode(number)
setAwayTemp(ctl, temp) ==
    [ctl EXCEPT !.awayMode = TRUE, !.awayTemp = clamp(temp, ctl.minTemp, ctl.maxTemp)]

(***************************************************************************)
(* Setter arguments as JavaScript values.  A number is held in 1/1000 (a   *)
(* temperature in 1/1000 degree, a duration in 1/1000 minute); a string is *)
(* held as the sequence of its characters; `flag' is the value of a        *)
(* boolean.  An object is held by the two properties setBoost reads and by *)
(* the schedule it stands for when it is handed to setSchedule.            *)
(***************************************************************************)
JsNumber(n) == [type |-> "number", num |-> n, text |-> <<>>, flag |-> FALSE]
JsNaN == JsNumber(NaN)
JsString(chars) == [type |-> "string", num |-> Null, text |-> chars, flag |-> FALSE]
JsBoolean(b) == [type |-> "boolean", num |-> Null, text |-> <<>>, flag |-> b]
JsNull == [type |-> "null", num |-> Null, text |-> <<>>, flag |-> FALSE]
JsUndefined == [type |-> "undefined", num |-> Null, text |-> <<>>, flag |-> FALSE]
JsBoostObject(temp, duration) ==
    [type |-> "object", temp |-> temp, duration |-> duration, schedule |-> NoSchedule]
JsScheduleObject(schedule) ==
    [type |-> "object", temp |-> JsUndefined, duration |-> JsUndefined,
     schedule |-> schedule]

DigitValue(ch) ==
    CASE ch = "0" -> 0 [] ch = "1" -> 1 [] ch = "2" -> 2 [] ch = "3" -> 3
      [] ch = "4" -> 4 [] ch = "5" -> 5 [] ch = "6" -> 6 [] ch = "7" -> 7
      [] ch = "8" -> 8 [] ch = "9" -> 9 [] OTHER -> 0 - 1
IsDigit(ch) == DigitValue(ch) >= 0

\* The index of the first character at or after i that is no space
RECURSIVE SkipSpaces(_, _)
SkipSpaces(text, i) ==
    IF i <= Len(text) /\ text[i] = " " THEN SkipSpaces(text, i + 1) ELSE i
\* The number of consecutive digits from index i on
RECURSIVE DigitRun(_, _)
DigitRun(text, i) ==
    IF i <= Len(text) /\ IsDigit(text[i]) THEN 1 + DigitRun(text, i + 1) ELSE 0
\* The value of the n digits from index i on
RECURSIVE DigitsValue(_, _, _)
DigitsValue(text, i, n) ==
    IF n = 0 THEN 0
    ELSE 10 * DigitsValue(text, i, n - 1) + DigitValue(text[i + n - 1])

\* The longest prefix of a string that parseFloat reads: spaces, a sign,
\* digits, a point and digits.  `digits' is 0 when there is no number; `end'
\* is the index after the prefix; `value' is in 1/1000 (three decimals kept)
ScanNumber(text) ==
    LET start == SkipSpaces(text, 1)
        signed == start <= Len(text) /\ text[start] \in {"-", "+"}
        negative == signed /\ text[start] = "-"
        first == IF signed THEN start + 1 ELSE start
        intLen == DigitRun(text, first)
        pointAt == first + intLen
        hasPoint == pointAt <= Len(text) /\ text[pointAt] = "."
        fracLen == IF hasPoint THEN DigitRun(text, pointAt + 1) ELSE 0
        whole == DigitsValue(text, first, intLen)
        frac == IF fracLen = 0 THEN 0
                ELSE IF fracLen = 1 THEN 100 * DigitsValue(text, pointAt + 1, 1)
                ELSE IF fracLen = 2 THEN 10 * DigitsValue(text, pointAt + 1, 2)
                ELSE DigitsValue(text, pointAt + 1, 3)
        magnitude == whole * 1000 + frac
    IN [digits |-> intLen + fracLen,
        intDigits |-> intLen,
        whole |-> IF negative THEN 0 - whole ELSE whole,
        value |-> IF negative THEN 0 - magnitude ELSE magnitude,
        end |-> IF fracLen > 0 THEN pointAt + 1 + fracLen
                ELSE IF hasPoint /\ intLen > 0 THEN pointAt + 1
                ELSE pointAt]

\* parseFloat(v): a number is returned as it is, a string is read up to the
\* first character that cannot continue a number, anything else is NaN
parseFloat(v) ==
    IF v.type = "number" THEN v.num
    ELSE IF v.type = "string"
         THEN IF ScanNumber(v.text).digits = 0 THEN NaN ELSE ScanNumber(v.text).value
    ELSE NaN

\* Truncation toward zero of a value in 1/1000, in whole units
Truncate(n) == IF n >= 0 THEN n \div 1000 ELSE 0 - ((0 - n) \div 1000)

\* parseInt(v, 10), in whole units: the integer digits of the string form
parseInt(v) ==
    IF v.type = "number" THEN IF v.num = NaN THEN NaN ELSE Truncate(v.num)
    ELSE IF v.type = "string"
         THEN IF ScanNumber(v.text).intDigits = 0 THEN NaN ELSE ScanNumber(v.text).whole
    ELSE NaN

\* setSetpoint(temp), any argument
setSetpointCall(ctl, v) ==
    IF v.type = "number" /\ v.num # NaN THEN setSetpoint(ctl, v.num) ELSE ctl

\* setSchedule(schedule), any argument: schedule && typeof schedule === 'object'
setScheduleCall(ctl, v) ==
    IF v.type = "object" THEN setSchedule(ctl, v.schedule) ELSE ctl

\* setBoost(boost), any argument
setBoostCall(ctl, v, t) ==
    IF v.type = "boolean" /\ ~v.flag THEN clearBoost(ctl)
    ELSE IF v.type = "object"
         THEN IF parseFloat(v.temp) # NaN /\ parseInt(v.duration) # NaN
                 /\ parseInt(v.duration) > 0
              THEN setBoost(ctl, parseFloat(v.temp), parseInt(v.duration) * 10, t)
              ELSE ctl
    ELSE ctl

\* setAwayMode(away), any argument
setAwayModeCall(ctl, v) ==
    IF v.type = "boolean" THEN setAwayFlag(ctl, v.flag)
    ELSE IF v.type = "number" /\ v.num # NaN THEN setAwayTemp(ctl, v.num)
    ELSE ctl

(***************************************************************************)
(* Rounding, history and trend                                             *)
(***************************************************************************)
\* roundToPrecision(value) = Math.round(value / precision) * precision, for a
\* value given in 1/1000000 degree; the result is in 1/1000 degree
\* roundToPrecision that drops the fraction of a step instead of rounding
roundToPrecision_truncate(ctl, valueMicro) ==
    (valueMicro \div (ctl.precision * 1000)) * ctl.precision

roundToPrecision(ctl, valueMicro) ==
    RoundDiv(valueMicro, ctl.precision * 1000) * ctl.precision

\* Math.round(error * 100) / 100
roundError(error) == RoundDiv(error, 10) * 10

\* Array.prototype.filter on the temperature history
keepNewerThan(h, limit) ==
    LET newer(t) == t.timestamp > limit
    IN SelectSeq(h, newer)

\* recordTemperature that never drops a sample from the temperature history
recordTemperature_keepAll(ctl, temp, timestamp) ==
    LET pushed == Append(ctl.temperatureHistory, [temp |-> temp, timestamp |-> timestamp])
        w == Append(ctl.trendWindow, temp)
    IN [ctl EXCEPT !.temperatureHistory = pushed,
                   !.trendWindow = IF Len(w) > trendWindowSize THEN Tail(w) ELSE w]

recordTemperature(ctl, temp, timestamp) ==
    LET pushed == Append(ctl.temperatureHistory, [temp |-> temp, timestamp |-> timestamp])
        oneHourAgo == timestamp - HistoryWindow
        w == Append(ctl.trendWindow, temp)
    IN [ctl EXCEPT !.temperatureHistory = keepNewerThan(pushed, oneHourAgo),
                   !.trendWindow = IF Len(w) > trendWindowSize THEN Tail(w) ELSE w]

detectTrend(ctl) ==
    IF Len(ctl.trendWindow) < 3 THEN "unknown"
    ELSE LET diff == ctl.trendWindow[Len(ctl.trendWindow)] - ctl.trendWindow[1]
         IN IF diff > 100 THEN "heating"
            ELSE IF diff < 0 - 100 THEN "cooling"
            ELSE "stable"

(***************************************************************************)
(* Learning phase                                                          *)
(***************************************************************************)
MinOf(S) == CHOOSE i \in S : \A j \in S : i <= j

\* estimateThermalCharacteristics: indices are those of the code plus one
estimateThermalCharacteristics(ctl) ==
    LET h == ctl.temperatureHistory
        n == Len(h)
        \* Math.abs(NaN - x) > maxChange is false: a NaN sample is never the peak
        dev(i) == IF h[i].temp = NaN \/ h[1].temp = NaN THEN 0
                  ELSE Abs(h[i].temp - h[1].temp)
        maxChange == IF n < 2 THEN 0
                     ELSE CHOOSE m \in {dev(i) : i \in 2..n} : \A i \in 2..n : dev(i) <= m
        changeEndIdx == IF maxChange = 0 THEN 1
                        ELSE MinOf({i \in 2..n : dev(i) = maxChange})
        span == h[changeEndIdx].temp - h[1].temp
        reached(i, permille) ==
            \/ span > 0 /\ 1000 * h[i].temp >= 1000 * h[1].temp + permille * span
            \/ span < 0 /\ 1000 * h[i].temp <= 1000 * h[1].temp + permille * span
        at63 == {i \in 1..(changeEndIdx - 1) : reached(i, 632)}
        at10 == {i \in 1..(changeEndIdx - 1) : reached(i, 100)}
        timeConstantIdx == IF at63 = {} THEN changeEndIdx ELSE MinOf(at63)
        deadTimeIdx == IF at10 = {} THEN 1 ELSE MinOf(at10)
    IN IF n < 10 \/ maxChange < 500
       THEN [timeConstant |-> 0, deadTime |-> 0]
       ELSE [timeConstant |-> h[timeConstantIdx].timestamp - h[1].timestamp,
             deadTime |-> h[deadTimeIdx].timestamp - h[1].timestamp]

\* min((a * b) \div d, hi) for a >= 0, b > 0, d > 0, without forming a * b
\* when it is beyond the cap
MulDivSat(a, b, d, hi) ==
    IF a > ((hi + 1) * d) \div b THEN hi ELSE Min2((a * b) \div d, hi)

\* A gain above GainCeiling is clamped whatever its value
GainCeiling == KpMax + KdMax + KiMax

\* adaptPIDParameters raising the flag only when a gain differs from before
adaptPIDParameters_flagIfChanged(ctl, characteristics) ==
    LET tC == characteristics.timeConstant
        dT == characteristics.deadTime
        fast == 10 * dT < tC
        moderate == 2 * dT < tC
        KpFast == (1350 * tC) \div dT
        KiFast == (2 * 1350 * tC) \div (5 * dT * dT)
        KdFast == (4995 * tC) \div 10
        KpMod == (1350 * tC + 250 * dT) \div dT
        KiMod == (KpMod * 2 * tC) \div (dT * (5 * tC - 4 * dT))
        KdMod == MulDivSat(KpMod, 370 * dT - (300 * dT * dT) \div tC, 1000, GainCeiling)
        KpSlow == (900 * tC) \div dT
        KiSlow == (KpSlow * 10) \div (33 * dT)
        KdSlow == 180 * tC
        newKp == IF fast THEN KpFast ELSE IF moderate THEN KpMod ELSE KpSlow
        newKi == IF fast THEN KiFast ELSE IF moderate THEN KiMod ELSE KiSlow
        newKd == IF fast THEN KdFast ELSE IF moderate THEN KdMod ELSE KdSlow
    IN IF tC <= 0 \/ dT <= 0 THEN ctl
       ELSE [ctl EXCEPT !.Kp = clamp(newKp, KpMin, KpMax),
                        !.Ki = clamp(newKi, KiMin, KiMax),
                        !.Kd = clamp(newKd, KdMin, KdMax),
                        !.parametersChanged =
                            IF \/ clamp(newKp, KpMin, KpMax) # ctl.Kp
                               \/ clamp(newKi, KiMin, KiMax) # ctl.Ki
                               \/ clamp(newKd, KdMin, KdMax) # ctl.Kd
                            THEN TRUE ELSE @]

\* adaptPIDParameters: Cohen-Coon tuning; ratio = deadTime / timeConstant
adaptPIDParameters(ctl, characteristics) ==
    LET tC == characteristics.timeConstant
        dT == characteristics.deadTime
        fast == 10 * dT < tC
        moderate == 2 * dT < tC
        KpFast == (1350 * tC) \div dT
        KiFast == (2 * 1350 * tC) \div (5 * dT * dT)
        KdFast == (4995 * tC) \div 10
        KpMod == (1350 * tC + 250 * dT) \div dT
        KiMod == (KpMod * 2 * tC) \div (dT * (5 * tC - 4 * dT))
        KdMod == MulDivSat(KpMod, 370 * dT - (300 * dT * dT) \div tC, 1000, GainCeiling)
        KpSlow == (900 * tC) \div dT
        KiSlow == (KpSlow * 10) \div (33 * dT)
        KdSlow == 180 * tC
        newKp == IF fast THEN KpFast ELSE IF moderate THEN KpMod ELSE KpSlow
        newKi == IF fast THEN KiFast ELSE IF moderate THEN KiMod ELSE KiSlow
        newKd == IF fast THEN KdFast ELSE IF moderate THEN KdMod ELSE KdSlow
    IN IF tC <= 0 \/ dT <= 0 THEN ctl
       ELSE [ctl EXCEPT !.Kp = clamp(newKp, KpMin, KpMax),
                        !.Ki = clamp(newKi, KiMin, KiMax),
                        !.Kd = clamp(newKd, KdMin, KdMax),
                        !.parametersChanged = TRUE]

\* learn, l.258-273: tune from the estimate when it is conclusive, then the
\* one-hour timeout
learnFromEstimate(started, characteristics, t) ==
    LET conclusive == characteristics.timeConstant > 0 /\ characteristics.deadTime > 0
        timedOut == t - started.learningStartTime > LearningTimeout
        gains == IF conclusive THEN adaptPIDParameters(started, characteristics)
                 ELSE started
    IN IF conclusive \/ timedOut
       THEN [gains EXCEPT !.learningComplete = TRUE, !.learningPhase = FALSE]
       ELSE gains

\* learn, l.253-258: nothing more happens while the history is short
learnStarted(started, t) ==
    IF Len(started.temperatureHistory) < samplesNeeded THEN started
    ELSE learnFromEstimate(started, estimateThermalCharacteristics(started), t)

learn(ctl, t) ==
    learnStarted(IF ctl.learningStartTime = Null \/ ctl.learningStartTime = 0
                 THEN [ctl EXCEPT !.learningStartTime = t] ELSE ctl, t)

(***************************************************************************)
(* Continuous adaptation                                                   *)
(***************************************************************************)
\* Exact arithmetic on squares: a number hi * 10^6 + lo, 0 <= lo < 10^6
Wide(hi, lo) == [hi |-> hi + lo \div 1000000, lo |-> lo % 1000000]
\* x * x for 0 <= x < 46000000
Square(x) ==
    LET a == x \div 1000
        b == x % 1000
    IN Wide(a * a + (2 * a * b) \div 1000, ((2 * a * b) % 1000) * 1000 + b * b)
WideGreater(x, y) == x.hi > y.hi \/ (x.hi = y.hi /\ x.lo > y.lo)

\* recentErrors.reduce: the sum, and the sum of squares, of s[lo..hi], halving
\* the range
RECURSIVE SumFrom(_, _, _)
SumFrom(s, lo, hi) ==
    IF lo > hi THEN 0
    ELSE IF lo = hi THEN s[lo]
    ELSE SumFrom(s, lo, (lo + hi) \div 2) + SumFrom(s, (lo + hi) \div 2 + 1, hi)
WideSum(x, y) == Wide(x.hi + y.hi, x.lo + y.lo)
RECURSIVE SumSquaresFrom(_, _, _)
SumSquaresFrom(s, lo, hi) ==
    IF lo > hi THEN Wide(0, 0)
    ELSE IF lo = hi THEN Square(s[lo])
    ELSE WideSum(SumSquaresFrom(s, lo, (lo + hi) \div 2),
                 SumSquaresFrom(s, (lo + hi) \div 2 + 1, hi))

\* continuousAdaptation without the re-clamp of Ki
continuousAdaptation_noKiClamp(ctl) ==
    LET h == ctl.performanceHistory
        first == Len(h) - adaptationInterval + 1
        S == SumFrom(h, first, Len(h))
        Q == SumSquaresFrom(h, first, Len(h))
        k == (4 * adaptationInterval) \div 5
        lhs == Wide(Q.hi * k, Q.lo * k)
        oscillating == WideGreater(lhs, Square(S))
        sluggish == S > 2 * adaptationInterval * ctl.hysteresis
        Kp1 == IF oscillating THEN (ctl.Kp * 95) \div 100
               ELSE IF sluggish THEN (ctl.Kp * 102) \div 100
               ELSE ctl.Kp
        Kd1 == IF oscillating THEN (ctl.Kd * 95) \div 100 ELSE ctl.Kd
        newKp == clamp(Kp1, KpMin, KpMax)
        newKd == clamp(Kd1, KdMin, KdMax)
    IN IF Len(h) < adaptationInterval THEN ctl
       ELSE [ctl EXCEPT !.Kp = newKp, !.Kd = newKd,
                        !.parametersChanged =
                            IF newKp # ctl.Kp \/ newKd # ctl.Kd THEN TRUE ELSE @]

\* continuousAdaptation.  With n = adaptationInterval entries of sum S and sum
\* of squares Q: stdDev > avgError * 0.5 iff 4 * n * Q > 5 * S * S, and
\* avgError > hysteresis * 2 iff S > 2 * n * hysteresis.
continuousAdaptation(ctl) ==
    LET h == ctl.performanceHistory
        first == Len(h) - adaptationInterval + 1
        S == SumFrom(h, first, Len(h))
        Q == SumSquaresFrom(h, first, Len(h))
        k == (4 * adaptationInterval) \div 5
        lhs == Wide(Q.hi * k, Q.lo * k)
        oscillating == WideGreater(lhs, Square(S))
        sluggish == S > 2 * adaptationInterval * ctl.hysteresis
        Kp1 == IF oscillating THEN (ctl.Kp * 95) \div 100
               ELSE IF sluggish THEN (ctl.Kp * 102) \div 100
               ELSE ctl.Kp
        Kd1 == IF oscillating THEN (ctl.Kd * 95) \div 100 ELSE ctl.Kd
        newKp == clamp(Kp1, KpMin, KpMax)
        newKi == clamp(ctl.Ki, KiMin, KiMax)
        newKd == clamp(Kd1, KdMin, KdMax)
    IN IF Len(h) < adaptationInterval THEN ctl
       ELSE [ctl EXCEPT !.Kp = newKp, !.Ki = newKi, !.Kd = newKd,
                        !.parametersChanged =
                            IF newKp # ctl.Kp \/ newKd # ctl.Kd THEN TRUE ELSE @]

trackPerformance(ctl, error) ==
    LET pushed == Append(ctl.performanceHistory, Abs(error))
        kept == IF Len(pushed) > PerformanceCap THEN Tail(pushed) ELSE pushed
        c1 == [ctl EXCEPT !.performanceHistory = kept]
    IN IF Len(kept) >= adaptationInterval /\ Len(kept) % adaptationInterval = 0
       THEN continuousAdaptation(c1)
       ELSE c1

(***************************************************************************)
(* PID core                                                                *)
(***************************************************************************)
\* calculatePID: the controller with its accumulator updated, and the
\* adjustment P + I + D in 1/1000000 degree
calculatePID(ctl, error, dt, activeMode) ==
    LET absError == Abs(error)
        P == ctl.Kp * absError
        summed == IF activeMode = "heat" THEN ctl.integral + error * dt
                  ELSE ctl.integral + (0 - error) * dt
        integralLimit == IF 2 * ctl.Ki = 0 THEN ctl.maxTemp - ctl.minTemp
                         ELSE ((ctl.maxTemp - ctl.minTemp) * 1000) \div (2 * ctl.Ki)
        integral == clamp(summed, 0, integralLimit)
        I == ctl.Ki * integral
        errorChange == Abs(error) - Abs(ctl.lastError)
        D == IF dt > 0 THEN (ctl.Kd * errorChange) \div dt ELSE 0
    IN [ctl |-> [ctl EXCEPT !.integral = integral], adjustment |-> P + I + D]

\* createOutput: the record update returns; `error' is the rounded debug.error
createOutput(ctl, output, currentTemp, error, trend, hasPid, activeMode) ==
    [output |-> roundToPrecision(ctl, output * 1000),
     currentTemp |-> currentTemp,
     targetTemp |-> ctl.targetTemp,
     baseTargetTemp |-> ctl.baseTargetTemp,
     error |-> roundError(error),
     trend |-> trend,
     mode |-> ctl.mode,
     activeMode |-> activeMode,
     state |-> IF ctl.learningPhase THEN "learning" ELSE "running",
     learningComplete |-> ctl.learningComplete,
     hasPidTerms |-> hasPid,
     operatingMode |-> ctl.operatingMode,
     scheduleActive |-> ctl.operatingMode = "schedule" /\ ctl.schedule.present,
     boostActive |-> ctl.boostActive,
     boostTemp |-> ctl.boostTemp,
     awayMode |-> ctl.awayMode,
     awayTemp |-> ctl.awayTemp]

\* Variants of bypassPID: the accumulator relaxed without the floor at 0; the
\* accumulator wound up by |error| instead of relaxed
bypassPID_noFloor(ctl, currentTemp, error, activeMode) ==
    LET output == roundToPrecision(ctl, ctl.targetTemp * 1000)
        c1 == [ctl EXCEPT !.lastOutput = output,
                          !.integral = ctl.integral - Abs(error)]
    IN [ctl |-> c1,
        out |-> createOutput(c1, output, currentTemp, error, "idle", FALSE, activeMode)]
bypassPID_windup(ctl, currentTemp, error, activeMode) ==
    LET output == roundToPrecision(ctl, ctl.targetTemp * 1000)
        c1 == [ctl EXCEPT !.lastOutput = output,
                          !.integral = Max2(0, ctl.integral + Abs(error))]
    IN [ctl |-> c1,
        out |-> createOutput(c1, output, currentTemp, error, "idle", FALSE, activeMode)]

\* The mode-mismatch branch of update: emit the target, relax the accumulator
bypassPID(ctl, currentTemp, error, activeMode) ==
    LET output == roundToPrecision(ctl, ctl.targetTemp * 1000)
        c1 == [ctl EXCEPT !.lastOutput = output,
                          !.integral = Max2(0, ctl.integral - Abs(error))]
    IN [ctl |-> c1,
        out |-> createOutput(c1, output, currentTemp, error, "idle", FALSE, activeMode)]

\* The setpoint shaper emitting the rounded target inside the hysteresis band
shapeSetpoint_stableInBand(ctl, adjustment, activeMode, inHysteresis) ==
    LET target == ctl.targetTemp * 1000
        maxCool == (ctl.targetTemp - ctl.precision) * 1000
        minHeat == (ctl.targetTemp + ctl.precision) * 1000
        raw0 == IF activeMode = "cool"
                THEN IF target - adjustment > maxCool THEN maxCool ELSE target - adjustment
                ELSE IF target + adjustment < minHeat THEN minHeat ELSE target + adjustment
        maxChange == ctl.maxOutputChange * 1000
        change == raw0 - ctl.lastOutput * 1000
        raw1 == IF ctl.lastOutput # Null /\ Abs(change) > maxChange
                THEN ctl.lastOutput * 1000 + Sign(change) * maxChange
                ELSE raw0
    IN IF inHysteresis THEN roundToPrecision(ctl, target)
       ELSE roundToPrecision(ctl, clamp(raw1, ctl.minTemp * 1000, ctl.maxTemp * 1000))

\* The setpoint shaper of update: minimum step, rate limit, clamp, rounding
shapeSetpoint(ctl, adjustment, activeMode, inHysteresis) ==
    LET target == ctl.targetTemp * 1000
        maxCool == (ctl.targetTemp - ctl.precision) * 1000
        minHeat == (ctl.targetTemp + ctl.precision) * 1000
        raw0 == IF activeMode = "cool"
                THEN IF ~inHysteresis /\ target - adjustment > maxCool
                     THEN maxCool ELSE target - adjustment
                ELSE IF ~inHysteresis /\ target + adjustment < minHeat
                     THEN minHeat ELSE target + adjustment
        maxChange == ctl.maxOutputChange * 1000
        change == raw0 - ctl.lastOutput * 1000
        raw1 == IF ctl.lastOutput # Null /\ Abs(change) > maxChange
                THEN ctl.lastOutput * 1000 + Sign(change) * maxChange
                ELSE raw0
    IN roundToPrecision(ctl, clamp(raw1, ctl.minTemp * 1000, ctl.maxTemp * 1000))

\* update, l.181-189: performance tracking, trend, the returned record
finishPID(stored, output, currentTemp, error, activeMode, inHysteresis) ==
    LET tracked == IF ~stored.learningPhase THEN trackPerformance(stored, error)
                   ELSE stored
    IN [ctl |-> tracked,
        out |-> createOutput(tracked, output, currentTemp, error,
                             IF inHysteresis THEN "stable" ELSE detectTrend(tracked),
                             TRUE, activeMode)]

\* update, l.176-179: lastError, lastTemp and lastOutput stored
storePID(ctl, output, currentTemp, error, activeMode, inHysteresis) ==
    finishPID([ctl EXCEPT !.lastError = error,
                          !.lastTemp = currentTemp,
                          !.lastOutput = output],
              output, currentTemp, error, activeMode, inHysteresis)

\* update, l.138-174: the setpoint from the PID result
shapePID(pid, currentTemp, error, activeMode, inHysteresis) ==
    storePID(pid.ctl, shapeSetpoint(pid.ctl, pid.adjustment, activeMode, inHysteresis),
             currentTemp, error, activeMode, inHysteresis)

\* The PID branch of update
runPID(ctl, currentTemp, error, dt, activeMode, inHysteresis, t) ==
    shapePID(calculatePID(IF ctl.learningPhase /\ ~ctl.learningComplete
                          THEN learn(ctl, t) ELSE ctl,
                          error, dt, activeMode),
             currentTemp, error, activeMode, inHysteresis)

\* update, l.108-189: the branch taken for the error and the active mode
dispatch(ctl, currentTemp, error, dt, activeMode, t) ==
    IF (ctl.mode = "heat" /\ error < 0) \/ (ctl.mode = "cool" /\ error > 0)
    THEN bypassPID(ctl, currentTemp, error, activeMode)
    ELSE runPID(ctl, currentTemp, error, dt, activeMode,
                Abs(error) < ctl.hysteresis, t)

\* update, l.96-106: the error and the active mode of the recorded sample
onSample(ctl, currentTemp, error, dt, t) ==
    dispatch(ctl, currentTemp, error, dt,
             IF ctl.mode = "heat_cool"
             THEN IF error > 0 THEN "heat" ELSE "cool"
             ELSE ctl.mode,
             t)

\* onTarget that records the sample in off mode too
onTarget_recordInOff(ctl, currentTemp, dt, t) ==
    IF ctl.operatingMode = "off"
    THEN [ctl |-> recordTemperature(ctl, currentTemp, t),
          out |-> createOutput(ctl, roundToPrecision(ctl, ctl.minTemp * 1000),
                               currentTemp, 0, "off", FALSE, ctl.mode)]
    ELSE onSample(recordTemperature(ctl, currentTemp, t), currentTemp,
                  ctl.targetTemp - currentTemp, dt, t)

\* update, l.90-100: off mode returns at once, else the sample is recorded
onTarget(ctl, currentTemp, dt, t) ==
    IF ctl.operatingMode = "off"
    THEN [ctl |-> ctl,
          out |-> createOutput(ctl, roundToPrecision(ctl, ctl.minTemp * 1000),
                               currentTemp, 0, "off", FALSE, ctl.mode)]
    ELSE onSample(recordTemperature(ctl, currentTemp, t), currentTemp,
                  ctl.targetTemp - currentTemp, dt, t)

\* update(currentTemp) at instant t: the controller afterwards and the result
update(ctl, currentTemp, t) ==
    onTarget(calculateEffectiveTarget(
                 checkBoostExpiry([ctl EXCEPT !.lastUpdateTime = t], t), t),
             currentTemp,
             IF ctl.lastUpdateTime # Null /\ ctl.lastUpdateTime # 0
             THEN t - ctl.lastUpdateTime ELSE ctl.sampleInterval,
             t)

(***************************************************************************)
(* update(NaN): every comparison with NaN is false and every sum, product, *)
(* clamp and rounding of NaN is NaN                                        *)
(***************************************************************************)
\* continuousAdaptation over recent errors that hold a NaN: neither branch is
\* taken (l.412, l.416), the gains are clamped (l.423-427)
continuousAdaptationNaN(ctl) ==
    LET newKp == clamp(ctl.Kp, KpMin, KpMax)
        newKi == clamp(ctl.Ki, KiMin, KiMax)
        newKd == clamp(ctl.Kd, KdMin, KdMax)
    IN [ctl EXCEPT !.Kp = newKp, !.Ki = newKi, !.Kd = newKd,
                   !.parametersChanged =
                       IF newKp # ctl.Kp \/ newKd # ctl.Kd THEN TRUE ELSE @]

\* trackPerformance(NaN)
trackPerformanceNaN(ctl) ==
    LET pushed == Append(ctl.performanceHistory, NaN)
        kept == IF Len(pushed) > PerformanceCap THEN Tail(pushed) ELSE pushed
        c1 == [ctl EXCEPT !.performanceHistory = kept]
    IN IF Len(kept) >= adaptationInterval /\ Len(kept) % adaptationInterval = 0
       THEN continuousAdaptationNaN(c1)
       ELSE c1

\* update l.176-189 with NaN for the error, the reading and the setpoint
finishNaN(stored, activeMode) ==
    LET tracked == IF ~stored.learningPhase THEN trackPerformanceNaN(stored)
                   ELSE stored
    IN [ctl |-> tracked,
        out |-> [createOutput(tracked, 0, NaN, 0,
                              IF Len(tracked.trendWindow) < 3 THEN "unknown"
                              ELSE "stable",
                              TRUE, activeMode)
                 EXCEPT !.output = NaN, !.error = NaN]]

\* update l.130-179: learn, then calculatePID leaves NaN in the accumulator
\* (l.207-213), and NaN is stored as last error, reading and setpoint
runNaN(learned, activeMode) ==
    finishNaN([learned EXCEPT !.integral = NaN, !.lastError = NaN,
                              !.lastTemp = NaN, !.lastOutput = NaN],
              activeMode)

\* update l.96-133 for the recorded NaN sample: the error is NaN, so
\* heat_cool takes 'cool' (l.104) and neither mismatch branch is taken
onSampleNaN(recorded, t) ==
    runNaN(IF recorded.learningPhase /\ ~recorded.learningComplete
           THEN learn(recorded, t) ELSE recorded,
           IF recorded.mode = "heat_cool" THEN "cool" ELSE recorded.mode)

onTargetNaN(ctl, t) ==
    IF ctl.operatingMode = "off"
    THEN [ctl |-> ctl,
          out |-> createOutput(ctl, roundToPrecision(ctl, ctl.minTemp * 1000),
                               NaN, 0, "off", FALSE, ctl.mode)]
    ELSE onSampleNaN(recordTemperature(ctl, NaN, t), t)

\* update(NaN) at instant t: the controller afterwards and the result
updateNaN(ctl, t) ==
    onTargetNaN(calculateEffectiveTarget(
                    checkBoostExpiry([ctl EXCEPT !.lastUpdateTime = t], t), t), t)

\* hasParametersChanged that reads the flag and leaves it raised
hasParametersChanged_sticky(ctl) == ctl

\* hasParametersChanged(): the controller after the read; the value returned
\* is the flag before it
hasParametersChanged(ctl) == [ctl EXCEPT !.parametersChanged = FALSE]

\* The fields setState reads from a state object
StateFields ==
    {"Kp", "Ki", "Kd", "integral", "lastError", "lastTemp", "lastOutput",
     "learningPhase", "learningComplete", "temperatureHistory", "performanceHistory",
     "mode", "baseTargetTemp", "operatingMode", "schedule", "boostActive", "boostTemp",
     "boostEndTime", "awayMode", "awayTemp"}

\* Fields getState writes and setState never reads
MirrorFields == {"minTemp", "maxTemp", "targetTemp", "hysteresis", "learningEnabled"}

\* getState(): the record the node writes to its state file.  `has' names the
\* fields the object holds (of those setState reads); getState writes them all.
getState(ctl) ==
    [present |-> TRUE,
     has |-> StateFields \cup MirrorFields,
     minTemp |-> ctl.minTemp,
     maxTemp |-> ctl.maxTemp,
     targetTemp |-> ctl.targetTemp,
     hysteresis |-> ctl.hysteresis,
     learningEnabled |-> ctl.learningEnabled,
     Kp |-> ctl.Kp, Ki |-> ctl.Ki, Kd |-> ctl.Kd,
     integral |-> ctl.integral,
     lastError |-> ctl.lastError,
     lastTemp |-> ctl.lastTemp,
     lastOutput |-> ctl.lastOutput,
     learningPhase |-> ctl.learningPhase,
     learningComplete |-> ctl.learningComplete,
     temperatureHistory |-> ctl.temperatureHistory,
     performanceHistory |-> ctl.performanceHistory,
     mode |-> ctl.mode,
     baseTargetTemp |-> ctl.baseTargetTemp,
     operatingMode |-> ctl.operatingMode,
     schedule |-> ctl.schedule,
     boostActive |-> ctl.boostActive,
     boostTemp |-> ctl.boostTemp,
     boostEndTime |-> ctl.boostEndTime,
     awayMode |-> ctl.awayMode,
     awayTemp |-> ctl.awayTemp]

\* restoreField assigning whatever the object holds, absent or not
restoreField_always(ctl, state, field) == state[field]

\* if (state.x !== undefined) this.x = state.x, for one field
restoreField(ctl, state, field) ==
    IF field \in state.has THEN state[field] ELSE ctl[field]

\* setState that leaves the learning flags of the fresh controller in place
setState_keepLearningFlags(ctl, state) ==
    IF ~state.present THEN ctl
    ELSE [f \in DOMAIN ctl |->
             IF f \in StateFields \ {"learningPhase", "learningComplete"}
             THEN IF f \in state.has THEN state[f] ELSE ctl[f]
             ELSE ctl[f]]

\* setState(state): state null or undefined changes nothing; else every field
\* the object holds is assigned and the others are left alone
setState(ctl, state) ==
    IF ~state.present THEN ctl
    ELSE [f \in DOMAIN ctl |->
             IF f \in StateFields THEN restoreField(ctl, state, f) ELSE ctl[f]]

(***************************************************************************)
(* The node: activation latch of the input handler                         *)
(***************************************************************************)
\* The latch without its off branch
latch_noOff(out, hysteresis, precision, wasHeating, wasCooling) ==
    LET error == out.error
        setpointAboveTarget == out.output > out.targetTemp + precision
        tempFalling == out.trend = "cooling"
        setpointBelowTarget == out.output < out.targetTemp - precision
        tempRising == out.trend = "warming"
        heating == IF error > hysteresis THEN TRUE
                   ELSE IF setpointAboveTarget /\ tempFalling /\ error > 0 THEN TRUE
                   ELSE IF error <= 0 THEN FALSE
                   ELSE wasHeating
        cooling == IF error < 0 - hysteresis THEN TRUE
                   ELSE IF setpointBelowTarget /\ tempRising /\ error < 0 THEN TRUE
                   ELSE IF error >= 0 THEN FALSE
                   ELSE wasCooling
    IN IF out.activeMode = "heat"
       THEN [heating |-> heating, cooling |-> wasCooling, isActive |-> heating]
       ELSE IF out.activeMode = "cool"
       THEN [heating |-> wasHeating, cooling |-> cooling, isActive |-> cooling]
       ELSE [heating |-> wasHeating, cooling |-> wasCooling, isActive |-> FALSE]

\* The latch with no memory: heating off everywhere inside the dead band
latch_noHold(out, hysteresis, precision, wasHeating, wasCooling) ==
    LET error == out.error
        setpointAboveTarget == out.output > out.targetTemp + precision
        tempFalling == out.trend = "cooling"
        setpointBelowTarget == out.output < out.targetTemp - precision
        tempRising == out.trend = "warming"
        heating == IF error > hysteresis THEN TRUE
                   ELSE IF setpointAboveTarget /\ tempFalling /\ error > 0 THEN TRUE
                   ELSE FALSE
        cooling == IF error < 0 - hysteresis THEN TRUE
                   ELSE IF setpointBelowTarget /\ tempRising /\ error < 0 THEN TRUE
                   ELSE IF error >= 0 THEN FALSE
                   ELSE wasCooling
    IN IF out.operatingMode = "off"
       THEN [heating |-> FALSE, cooling |-> FALSE, isActive |-> FALSE]
       ELSE IF out.activeMode = "heat"
       THEN [heating |-> heating, cooling |-> wasCooling, isActive |-> heating]
       ELSE IF out.activeMode = "cool"
       THEN [heating |-> wasHeating, cooling |-> cooling, isActive |-> cooling]
       ELSE [heating |-> wasHeating, cooling |-> wasCooling, isActive |-> FALSE]

\* The latch of node.on('input'), run on the result of update
latch(out, hysteresis, precision, wasHeating, wasCooling) ==
    LET error == out.error
        setpointAboveTarget == out.output > out.targetTemp + precision
        tempFalling == out.trend = "cooling"
        setpointBelowTarget == out.output < out.targetTemp - precision
        tempRising == out.trend = "warming"
        heating == IF error > hysteresis THEN TRUE
                   ELSE IF setpointAboveTarget /\ tempFalling /\ error > 0 THEN TRUE
                   ELSE IF error <= 0 THEN FALSE
                   ELSE wasHeating
        cooling == IF error < 0 - hysteresis THEN TRUE
                   ELSE IF setpointBelowTarget /\ tempRising /\ error < 0 THEN TRUE
                   ELSE IF error >= 0 THEN FALSE
                   ELSE wasCooling
    IN IF out.operatingMode = "off"
       THEN [heating |-> FALSE, cooling |-> FALSE, isActive |-> FALSE]
       ELSE IF out.activeMode = "heat"
       THEN [heating |-> heating, cooling |-> wasCooling, isActive |-> heating]
       ELSE IF out.activeMode = "cool"
       THEN [heating |-> wasHeating, cooling |-> cooling, isActive |-> cooling]
       ELSE [heating |-> wasHeating, cooling |-> wasCooling, isActive |-> FALSE]

(***************************************************************************)
(* Inputs                                                                  *)
(***************************************************************************)
MaxSteps == 3
MaxRestoreSteps == 2

\* A config that leaves every number to the constructor's defaults
DefaultConfig ==
    [minTemp |-> Null, maxTemp |-> Null, targetTemp |-> Null, hysteresis |-> Null,
     sampleInterval |-> Null, learningEnabled |-> TRUE, maxOutputChange |-> Null,
     precision |-> Null, mode |-> "heat", operatingMode |-> "manual", awayTemp |-> Null,
     Kp |-> Null, Ki |-> Null, Kd |-> Null]

\* Bounds that are no multiples of the precision step, an away temperature
\* below the minimum, learning disabled
OddConfig ==
    [minTemp |-> 15200, maxTemp |-> 25300, targetTemp |-> 21000, hysteresis |-> 200,
     sampleInterval |-> 300, learningEnabled |-> FALSE, maxOutputChange |-> 500,
     precision |-> 500, mode |-> "heat_cool", operatingMode |-> "manual",
     awayTemp |-> 10000, Kp |-> Null, Ki |-> Null, Kd |-> Null]

\* A host that hands the constructor gains at the upper ends of the tuning range
MaxGainConfig == [DefaultConfig EXCEPT !.Kp = KpMax, !.Ki = KiMax, !.Kd = KdMax]


\* Monday 06:00 -> 21, 22:00 -> 18; Tuesday 02:00 -> 20; in UTC
WeekSchedule ==
    [present |-> TRUE,
     days |-> [EmptyWeek EXCEPT ![2] = <<Slot(6, 0, 21000), Slot(22, 0, 18000)>>,
                                ![3] = <<Slot(2, 0, 20000)>>],
     timezone |-> "UTC",
     default |-> Null]
\* A schedule object without slots, with a default temperature of 18
EmptySchedule ==
    [present |-> TRUE, days |-> EmptyWeek, timezone |-> "local", default |-> 18000]
Schedules == {WeekSchedule, EmptySchedule}

\* Tuesday 01:59:00 UTC
StartTime == 2 * 86400 + 3600 + 59 * 60

\* State files.  None; one written while learning, after 29 samples a minute
\* apart of a room warming from 19.0 by 0.05 a minute; one written by a
\* controller of a release without schedule, boost and away, built by its host
\* with Ki 0.6 and past its learning phase, with 99 tracked errors of 0.4; one
\* written while learning by the controller of MaxGainConfig, whose second
\* sample came 10 seconds after the first
NoSavedState == [present |-> FALSE, has |-> {}]
SavedLearning ==
    [getState(Constructor(DefaultConfig)) EXCEPT
        !.temperatureHistory =
            [i \in 1..(samplesNeeded - 1) |->
                [temp |-> 19000 + 50 * (i - 1),
                 timestamp |-> StartTime - 60 * (samplesNeeded - i)]],
        !.lastTemp = 19000 + 50 * (samplesNeeded - 2),
        !.lastError = 21000 - (19000 + 50 * (samplesNeeded - 2)),
        !.lastOutput = 23000,
        !.integral = 100000]
SavedTuned ==
    [getState(Constructor(DefaultConfig)) EXCEPT
        !.has = (StateFields \cup MirrorFields)
                    \ {"operatingMode", "schedule", "boostActive", "boostTemp",
                       "boostEndTime", "awayMode", "awayTemp"},
        !.learningPhase = FALSE,
        !.learningComplete = TRUE,
        !.Ki = 600,
        !.performanceHistory = [i \in 1..(adaptationInterval - 1) |-> 400],
        !.lastTemp = 20600,
        !.lastError = 400,
        !.lastOutput = 21500,
        !.integral = 20000]
SavedLearningMaxGain ==
    [getState(Constructor(MaxGainConfig)) EXCEPT
        !.temperatureHistory =
            [i \in 1..(samplesNeeded - 1) |->
                [temp |-> IF i = 1 THEN 19000 ELSE 19400 + 30 * (i - 2),
                 timestamp |-> IF i = 1 THEN StartTime - 60 * (samplesNeeded - 2) - 10
                               ELSE StartTime - 60 * (samplesNeeded - i)]],
        !.lastTemp = 19400 + 30 * (samplesNeeded - 3),
        !.lastError = 21000 - (19400 + 30 * (samplesNeeded - 3)),
        !.lastOutput = 21500]

\* The node's start: a controller config, the state file found, and the UI's
\* default schedule
Starts == {<<DefaultConfig, NoSavedState, NoSchedule>>,
           <<DefaultConfig, NoSavedState, WeekSchedule>>,
           <<OddConfig, NoSavedState, NoSchedule>>,
           <<DefaultConfig, SavedLearning, NoSchedule>>,
           <<DefaultConfig, SavedTuned, NoSchedule>>,
           <<MaxGainConfig, SavedLearningMaxGain, NoSchedule>>}

\* Readings <<temperature, seconds since the last operation>>
Readings ==
    {<<20000, 60>>, <<20796, 60>>, <<20900, 60>>, <<20998, 60>>, <<21050, 60>>,
     <<21200, 60>>, <<20000, 90>>, <<20000, 3660>>}
SyncDelays == {90}
Setpoints == {19000, 30000}
OperatingModes == {"manual", "schedule", "off"}
Modes == {"cool", "auto", "heat"}
\* {temp, duration}: 24 for 1 minute, 30 for 1.5 minutes, 24 for 0.5 minutes
Boosts == {<<24000, 10>>, <<30000, 15>>, <<24000, 5>>}
AwayTemps == {17000}

NoOutput ==
    [output |-> Null, currentTemp |-> Null, targetTemp |-> Null, baseTargetTemp |-> Null,
     error |-> 0, trend |-> "none", mode |-> "none", activeMode |-> "none",
     state |-> "none", learningComplete |-> FALSE, hasPidTerms |-> FALSE,
     operatingMode |-> "none", scheduleActive |-> FALSE, boostActive |-> FALSE,
     boostTemp |-> Null, awayMode |-> FALSE, awayTemp |-> Null]
NoResult == [out |-> NoOutput, isActive |-> FALSE, saved |-> FALSE, threw |-> FALSE]
NoBoostIssued == [t0 |-> Null, temp |-> Null, durationTenths |-> 0]

(***************************************************************************)
(* State machine                                                           *)
(***************************************************************************)
\* new AdaptiveController(controllerConfig); the node then restores the state
\* file, when there is one, and loads the default schedule of its UI config,
\* when it has one and no schedule was restored
Restored(ctl, savedState) ==
    IF savedState.present THEN setState(ctl, savedState) ELSE ctl
WithUiSchedule(ctl, uiSchedule) ==
    IF uiSchedule.present /\ ~ctl.schedule.present THEN setSchedule(ctl, uiSchedule)
    ELSE ctl
Start(config, savedState, uiSchedule) ==
    WithUiSchedule(Restored(Constructor(config), savedState), uiSchedule)

Init ==
    /\ \E start \in Starts :
          /\ controllerConfig = start[1]
          /\ c = Start(start[1], start[2], start[3])
    /\ now = StartTime
    /\ wasHeatingActive = FALSE
    /\ wasCoolingActive = FALSE
    /\ result = NoResult
    /\ op = "init"
    /\ boostIssued = NoBoostIssued
    /\ steps = 0

\* node.on('input') after update returned u: the one-shot flag consumed and
\* the latch l applied
Deliver(u, l) ==
    /\ c' = hasParametersChanged(u.ctl)
    /\ wasHeatingActive' = l.heating
    /\ wasCoolingActive' = l.cooling
    /\ result' = [out |-> u.out, isActive |-> l.isActive,
                  saved |-> u.ctl.parametersChanged, threw |-> FALSE]

Process(u) ==
    Deliver(u, latch(u.out, c.hysteresis, c.precision, wasHeatingActive, wasCoolingActive))

\* node.on('input') when update throws out of getScheduledTemp: the clock
\* reading is stored and an elapsed boost cleared (update l.82-85) before the
\* lookup; the target is not assigned, nothing is returned, nothing is sent
Abort(t) ==
    /\ c' = checkBoostExpiry([c EXCEPT !.lastUpdateTime = t], t)
    /\ result' = [result EXCEPT !.out = NoOutput, !.saved = FALSE, !.threw = TRUE]
    /\ UNCHANGED <<wasHeatingActive, wasCoolingActive>>

\* node.on('input') with a numeric payload, d seconds after the last operation
OnInput(currentTemp, d) ==
    /\ IF getScheduledTempThrows(checkBoostExpiry(c, now + d), now + d)
       THEN Abort(now + d)
       ELSE Process(update(c, currentTemp, now + d))
    /\ now' = now + d
    /\ op' = "update"
    /\ steps' = steps + 1
    /\ UNCHANGED <<controllerConfig, boostIssued>>

Input(currentTemp, d) == steps < MaxSteps /\ OnInput(currentTemp, d)

\* controller.syncSchedule(), d seconds after the last operation
SyncSchedule(d) ==
    /\ steps < MaxSteps
    /\ c' = syncSchedule(c, now + d)
    /\ now' = now + d
    /\ op' = "syncSchedule"
    /\ steps' = steps + 1
    /\ UNCHANGED <<controllerConfig, wasHeatingActive, wasCoolingActive, result, boostIssued>>

\* controller.getStatus(), d seconds after the last operation
GetStatus(d) ==
    /\ steps < MaxSteps
    /\ c' = getStatus(c, now + d).ctl
    /\ now' = now + d
    /\ op' = "getStatus"
    /\ steps' = steps + 1
    /\ UNCHANGED <<controllerConfig, wasHeatingActive, wasCoolingActive, result, boostIssued>>

\* A setter reached from a message without a reading or from an MQTT command
Setter(after) ==
    /\ steps < MaxSteps
    /\ c' = after
    /\ op' = "setter"
    /\ steps' = steps + 1
    /\ UNCHANGED <<controllerConfig, now, wasHeatingActive, wasCoolingActive, result>>

SetSetpoint(temp) == Setter(setSetpoint(c, temp)) /\ UNCHANGED boostIssued
SetOperatingMode(m) ==
    Setter(setOperatingMode(c, m)) /\ UNCHANGED boostIssued
SetMode(m) == Setter(setMode(c, m)) /\ UNCHANGED boostIssued
SetSchedule(s) == Setter(setSchedule(c, s)) /\ UNCHANGED boostIssued
SetAwayFlag(away) == Setter(setAwayFlag(c, away)) /\ UNCHANGED boostIssued
SetAwayTemp(temp) == Setter(setAwayTemp(c, temp)) /\ UNCHANGED boostIssued
ClearBoost ==
    Setter(clearBoost(c)) /\ boostIssued' = NoBoostIssued
SetBoost(temp, durationTenths) ==
    /\ Setter(setBoost(c, temp, durationTenths, now))
    /\ boostIssued' = IF durationTenths \div 10 > 0
                      THEN [t0 |-> now, temp |-> temp, durationTenths |-> durationTenths]
                      ELSE boostIssued

Next ==
    \/ \E r \in Readings : Input(r[1], r[2])
    \/ \E d \in SyncDelays : SyncSchedule(d)
    \/ \E d \in SyncDelays : GetStatus(d)
    \/ \E t \in Setpoints : SetSetpoint(t)
    \/ \E m \in OperatingModes : SetOperatingMode(m)
    \/ \E m \in Modes : SetMode(m)
    \/ \E s \in Schedules : SetSchedule(s)
    \/ \E a \in BOOLEAN : SetAwayFlag(a)
    \/ \E t \in AwayTemps : SetAwayTemp(t)
    \/ ClearBoost
    \/ \E b \in Boosts : SetBoost(b[1], b[2])

Spec == Init /\ [][Next]_vars

\* The same node followed for fewer handler calls, for properties of one
\* snapshot and restore of the controller reached
Restoring == steps < MaxRestoreSteps
NextRestore ==
    \/ \E r \in Readings : Restoring /\ Input(r[1], r[2])
    \/ \E d \in SyncDelays : Restoring /\ SyncSchedule(d)
    \/ \E d \in SyncDelays : Restoring /\ GetStatus(d)
    \/ \E t \in Setpoints : Restoring /\ SetSetpoint(t)
    \/ \E m \in OperatingModes : Restoring /\ SetOperatingMode(m)
    \/ \E m \in Modes : Restoring /\ SetMode(m)
    \/ \E s \in Schedules : Restoring /\ SetSchedule(s)
    \/ \E a \in BOOLEAN : Restoring /\ SetAwayFlag(a)
    \/ \E t \in AwayTemps : Restoring /\ SetAwayTemp(t)
    \/ Restoring /\ ClearBoost
    \/ \E b \in Boosts : Restoring /\ SetBoost(b[1], b[2])
SpecRestore == Init /\ [][NextRestore]_vars

\* The same node whose host calls reset() on the controller after a few
\* handler calls
MaxResetSteps == 2
BeforeReset == steps < MaxResetSteps
Reset ==
    /\ steps < MaxResetSteps + 1
    /\ op # "reset"
    /\ c' = reset(c)
    /\ op' = "reset"
    /\ steps' = steps + 1
    /\ UNCHANGED <<controllerConfig, now, wasHeatingActive, wasCoolingActive,
                   result, boostIssued>>
NextReset ==
    \/ \E r \in Readings : BeforeReset /\ Input(r[1], r[2])
    \/ \E t \in Setpoints : BeforeReset /\ SetSetpoint(t)
    \/ \E m \in OperatingModes : BeforeReset /\ SetOperatingMode(m)
    \/ \E m \in Modes : BeforeReset /\ SetMode(m)
    \/ Reset
SpecReset == Init /\ [][NextReset]_vars

(***************************************************************************)
(* Schedule lookup across the week: a node deployed with a schedule at     *)
(* some instant of the week, whose host then calls syncSchedule and        *)
(* replaces the schedule                                                   *)
(***************************************************************************)
\* The schedule of the README, in a zone one hour ahead of UTC
ReadmeSchedule ==
    [present |-> TRUE,
     days |-> [EmptyWeek EXCEPT
                  ![2] = <<Slot(6, 0, 21000), Slot(8, 30, 19000),
                           Slot(17, 0, 21000), Slot(22, 0, 18000)>>,
                  ![3] = <<Slot(6, 0, 21000), Slot(22, 0, 18000)>>,
                  ![4] = <<Slot(6, 0, 21000), Slot(22, 0, 18000)>>],
     timezone |-> "Europe/Warsaw",
     default |-> 18000]
\* Monday slots at 06:00 and 22:00 only
MondayOnlySchedule ==
    [present |-> TRUE,
     days |-> [EmptyWeek EXCEPT ![2] = <<Slot(6, 0, 21000), Slot(22, 0, 18000)>>],
     timezone |-> "UTC",
     default |-> Null]
\* The same two slots listed latest first
UnorderedSchedule ==
    [present |-> TRUE,
     days |-> [EmptyWeek EXCEPT ![2] = <<Slot(22, 0, 18000), Slot(6, 0, 21000)>>],
     timezone |-> "UTC",
     default |-> 19000]
LookupSchedules ==
    {WeekSchedule, EmptySchedule, ReadmeSchedule, MondayOnlySchedule, UnorderedSchedule}

\* The instant of weekday `day' (0 = sunday), h:m UTC, in the first two weeks
At(day, h, m) == day * 86400 + h * 3600 + m * 60
LookupTimes ==
    {At(1, 5, 30), At(1, 8, 29), At(1, 17, 0), At(1, 23, 30), At(2, 1, 59),
     At(3, 12, 0), At(4, 12, 0), At(7, 0, 30)}
LookupDelays == {60, 86400}

InitSchedule ==
    /\ controllerConfig = DefaultConfig
    /\ \E s \in LookupSchedules : c = Start(DefaultConfig, NoSavedState, s)
    /\ now \in LookupTimes
    /\ wasHeatingActive = FALSE
    /\ wasCoolingActive = FALSE
    /\ result = NoResult
    /\ op = "init"
    /\ boostIssued = NoBoostIssued
    /\ steps = 0

NextSchedule ==
    \/ \E d \in LookupDelays : SyncSchedule(d)
    \/ \E s \in LookupSchedules : SetSchedule(s)

SpecSchedule == InitSchedule /\ [][NextSchedule]_vars

(***************************************************************************)
(* Long runs of samples: a node restored from a state file whose           *)
(* performance history is one entry short of its cap, or started fresh,    *)
(* fed MaxSamples readings, with operating mode off switched on and off    *)
(***************************************************************************)
MaxSamples == 6

\* A state file written by a tuned controller after PerformanceCap - 1 tracked
\* errors, the i-th being 0.1 + i / 1000, and three samples in the last
\* minutes
SavedFullHistory ==
    [getState(Constructor(DefaultConfig)) EXCEPT
        !.learningPhase = FALSE,
        !.learningComplete = TRUE,
        !.performanceHistory = [i \in 1..(PerformanceCap - 1) |-> 100 + i],
        !.temperatureHistory =
            [i \in 1..3 |-> [temp |-> 20700 + 100 * i,
                             timestamp |-> StartTime - 60 * (4 - i)]],
        !.lastTemp = 21000,
        !.lastError = 0,
        !.lastOutput = 21000]

HistoryReadings == {<<20000, 60>>, <<21200, 60>>, <<20900, 3660>>}

InitHistory ==
    /\ controllerConfig = DefaultConfig
    /\ \E saved \in {NoSavedState, SavedFullHistory} :
          c = Start(DefaultConfig, saved, NoSchedule)
    /\ now = StartTime
    /\ wasHeatingActive = FALSE
    /\ wasCoolingActive = FALSE
    /\ result = NoResult
    /\ op = "init"
    /\ boostIssued = NoBoostIssued
    /\ steps = 0

Sampling == steps < MaxSamples
\* The host switches between off and manual
ToggleOff ==
    /\ Sampling
    /\ c' = setOperatingMode(c, IF c.operatingMode = "off" THEN "manual" ELSE "off")
    /\ op' = "setter"
    /\ steps' = steps + 1
    /\ UNCHANGED <<controllerConfig, now, wasHeatingActive, wasCoolingActive, result,
                   boostIssued>>
\* node.on('input') with a numeric payload, within the longer run
Sample(currentTemp, d) == Sampling /\ OnInput(currentTemp, d)
NextHistory ==
    \/ \E r \in HistoryReadings : Sample(r[1], r[2])
    \/ ToggleOff

SpecHistory == InitHistory /\ [][NextHistory]_vars

(***************************************************************************)
(* A host that does not validate what it passes on: setters called with    *)
(* any argument (the node hands msg.schedule, msg.boost and msg.away and   *)
(* the fields of an MQTT command to the setters as they arrive), a payload *)
(* that is no number, and update called with NaN by a host other than the  *)
(* node.                                                                   *)
(***************************************************************************)
MaxRawSteps == 2

\* Schedules with a Tuesday list that holds a null, and that holds a slot
\* whose time is the number 600
NullSlotSchedule ==
    [present |-> TRUE,
     days |-> [EmptyWeek EXCEPT ![3] = <<Slot(1, 0, 20000), NullSlot>>],
     timezone |-> "UTC",
     default |-> Null]
NumericTimeSchedule ==
    [present |-> TRUE,
     days |-> [EmptyWeek EXCEPT ![3] = <<NumericTimeSlot(21000)>>],
     timezone |-> "UTC",
     default |-> Null]

ArgCall(setter, arg, js) == [setter |-> setter, arg |-> arg, mode |-> "", js |-> js]
ModeCall(setter, mode, js) == [setter |-> setter, arg |-> JsUndefined, mode |-> mode, js |-> js]

SetpointCalls ==
    {ArgCall("setSetpoint", JsNumber(22000), "setSetpoint(22)"),
     ArgCall("setSetpoint", JsNaN, "setSetpoint(NaN)"),
     ArgCall("setSetpoint", JsString(<<"2", "2">>), "setSetpoint('22')"),
     ArgCall("setSetpoint", JsNull, "setSetpoint(null)"),
     ArgCall("setSetpoint", JsUndefined, "setSetpoint(undefined)")}
ModeCalls ==
    {ModeCall("setOperatingMode", "off", "setOperatingMode('off')"),
     ModeCall("setOperatingMode", "OFF", "setOperatingMode('OFF')"),
     ModeCall("setOperatingMode", "auto", "setOperatingMode('auto')"),
     ModeCall("setMode", "cool", "setMode('cool')"),
     ModeCall("setMode", "auto", "setMode('auto')"),
     ModeCall("setMode", "HEAT", "setMode('HEAT')"),
     ModeCall("setMode", "off", "setMode('off')")}
ScheduleCalls ==
    {ArgCall("setSchedule", JsScheduleObject(WeekSchedule), "setSchedule(week)"),
     ArgCall("setSchedule", JsScheduleObject(NullSlotSchedule),
             "setSchedule({tuesday: [{time: '01:00', temp: 20}, null]})"),
     ArgCall("setSchedule", JsScheduleObject(NumericTimeSchedule),
             "setSchedule({tuesday: [{time: 600, temp: 21}]})"),
     ArgCall("setSchedule", JsNull, "setSchedule(null)"),
     ArgCall("setSchedule", JsString(<<"o", "f", "f">>), "setSchedule('off')"),
     ArgCall("setSchedule", JsNumber(5000), "setSchedule(5)"),
     ArgCall("setSchedule", JsBoolean(TRUE), "setSchedule(true)")}
BoostCalls ==
    {ArgCall("setBoost", JsBoolean(FALSE), "setBoost(false)"),
     ArgCall("setBoost", JsBoostObject(JsNumber(24000), JsNumber(10000)),
             "setBoost({temp: 24, duration: 10})"),
     ArgCall("setBoost", JsBoostObject(JsString(<<"2", "4", ".", "5">>), JsString(<<"1", "0">>)),
             "setBoost({temp: '24.5', duration: '10'})"),
     ArgCall("setBoost", JsBoostObject(JsString(<<"2", "4", "a", "b", "c">>), JsNumber(10000)),
             "setBoost({temp: '24abc', duration: 10})"),
     ArgCall("setBoost", JsBoostObject(JsNumber(24000), JsString(<<"1", "0", "m", "i", "n">>)),
             "setBoost({temp: 24, duration: '10min'})"),
     ArgCall("setBoost", JsBoostObject(JsString(<<"a", "b", "c">>), JsNumber(10000)),
             "setBoost({temp: 'abc', duration: 10})"),
     ArgCall("setBoost", JsBoostObject(JsUndefined, JsNumber(10000)),
             "setBoost({duration: 10})"),
     ArgCall("setBoost", JsBoostObject(JsNumber(24000), JsNumber(0)),
             "setBoost({temp: 24, duration: 0})"),
     ArgCall("setBoost", JsBoostObject(JsNumber(24000), JsNumber(0 - 5000)),
             "setBoost({temp: 24, duration: -5})"),
     ArgCall("setBoost", JsBoostObject(JsNumber(24000), JsNaN),
             "setBoost({temp: 24, duration: NaN})"),
     ArgCall("setBoost", JsBoolean(TRUE), "setBoost(true)"),
     ArgCall("setBoost", JsNumber(24000), "setBoost(24)"),
     ArgCall("setBoost", JsNull, "setBoost(null)")}
AwayCalls ==
    {ArgCall("setAwayMode", JsBoolean(TRUE), "setAwayMode(true)"),
     ArgCall("setAwayMode", JsNumber(17000), "setAwayMode(17)"),
     ArgCall("setAwayMode", JsNaN, "setAwayMode(NaN)"),
     ArgCall("setAwayMode", JsString(<<"1", "7">>), "setAwayMode('17')"),
     ArgCall("setAwayMode", JsNull, "setAwayMode(null)")}
RawCalls == SetpointCalls \cup ModeCalls \cup ScheduleCalls \cup BoostCalls \cup AwayCalls

\* The controller after the call
applyCall(ctl, call, t) ==
    CASE call.setter = "setSetpoint" -> setSetpointCall(ctl, call.arg)
      [] call.setter = "setOperatingMode" -> setOperatingMode(ctl, call.mode)
      [] call.setter = "setMode" -> setMode(ctl, call.mode)
      [] call.setter = "setSchedule" -> setScheduleCall(ctl, call.arg)
      [] call.setter = "setBoost" -> setBoostCall(ctl, call.arg, t)
      [] call.setter = "setAwayMode" -> setAwayModeCall(ctl, call.arg)

\* The boost a setBoost call starts, if it starts one
BoostAccepted(v) ==
    /\ v.type = "object"
    /\ parseFloat(v.temp) # NaN
    /\ parseInt(v.duration) # NaN
    /\ parseInt(v.duration) > 0

RawReadings == {<<20000, 60>>, <<21200, 60>>, <<20900, 3660>>}
RawDelays == {60}

\* A controller whose accumulator holds NaN is not followed further
Poisoned(ctl) == ctl.integral = NaN
Raw == steps < MaxRawSteps /\ ~Poisoned(c)

\* A setter called with whatever the host passes
RawCall(call) ==
    /\ Raw
    /\ c' = applyCall(c, call, now)
    /\ op' = call.js
    /\ steps' = steps + 1
    /\ boostIssued' =
          IF call.setter # "setBoost" THEN boostIssued
          ELSE IF call.arg.type = "boolean" /\ ~call.arg.flag THEN NoBoostIssued
          ELSE IF BoostAccepted(call.arg)
               THEN [t0 |-> now, temp |-> parseFloat(call.arg.temp),
                     durationTenths |-> parseInt(call.arg.duration) * 10]
          ELSE boostIssued
    /\ UNCHANGED <<controllerConfig, now, wasHeatingActive, wasCoolingActive, result>>

\* node.on('input') with a numeric payload, from a host that validates nothing
RawInput(currentTemp, d) == Raw /\ OnInput(currentTemp, d)

\* node.on('input') with a payload parseFloat reads as NaN: the handler warns
\* and returns before update (l.1118-1125)
InvalidPayload(d) ==
    /\ Raw
    /\ now' = now + d
    /\ op' = "invalidPayload"
    /\ steps' = steps + 1
    /\ UNCHANGED <<controllerConfig, c, wasHeatingActive, wasCoolingActive, result,
                   boostIssued>>

\* controller.update(NaN) called by a host without the node's guard
InvalidReading(d) ==
    /\ Raw
    /\ IF getScheduledTempThrows(checkBoostExpiry(c, now + d), now + d)
       THEN Abort(now + d)
       ELSE /\ c' = updateNaN(c, now + d).ctl
            /\ result' = [result EXCEPT !.out = updateNaN(c, now + d).out,
                                        !.saved = FALSE, !.threw = FALSE]
            /\ UNCHANGED <<wasHeatingActive, wasCoolingActive>>
    /\ now' = now + d
    /\ op' = "update(NaN)"
    /\ steps' = steps + 1
    /\ UNCHANGED <<controllerConfig, boostIssued>>

NextRaw ==
    \/ \E r \in RawReadings : RawInput(r[1], r[2])
    \/ \E call \in RawCalls : RawCall(call)
    \/ \E d \in RawDelays : InvalidPayload(d)
    \/ \E d \in RawDelays : InvalidReading(d)

SpecRaw == Init /\ [][NextRaw]_vars

(***************************************************************************)
(* Rounding: a node configured with each of the precisions the editor      *)
(* offers, given setpoints and readings off the precision grid.            *)
(***************************************************************************)
MaxRoundSteps == 3
Precisions == {1000, 500, 200, 100}
\* Values handed to roundToPrecision, in 1/1000000 degree: on the grid, at
\* and beside the half steps, below zero
RoundInputs ==
    {0, 49999, 50000, 50001, 250000, 499999, 500000, 20100000, 20250000,
     21249999, 21370000, 24999999, 0 - 50000, 0 - 50001, 0 - 250000, 0 - 1500000}
RoundSetpoints == {21370, 20250}
RoundReadings == {<<20000, 60>>, <<20300, 60>>, <<22000, 60>>}

InitRound ==
    /\ \E p \in Precisions :
          /\ controllerConfig = [DefaultConfig EXCEPT !.precision = p]
          /\ c = Start([DefaultConfig EXCEPT !.precision = p], NoSavedState, NoSchedule)
    /\ now = StartTime
    /\ wasHeatingActive = FALSE
    /\ wasCoolingActive = FALSE
    /\ result = NoResult
    /\ op = "init"
    /\ boostIssued = NoBoostIssued
    /\ steps = 0

Rounding == steps < MaxRoundSteps
RoundInput(currentTemp, d) == Rounding /\ OnInput(currentTemp, d)
RoundSetpoint(temp) == Rounding /\ SetSetpoint(temp)
NextRound ==
    \/ \E r \in RoundReadings : RoundInput(r[1], r[2])
    \/ \E t \in RoundSetpoints : RoundSetpoint(t)

SpecRound == InitRound /\ [][NextRound]_vars

(***************************************************************************)
(* Rate limiting: the shaping of update l.138-174 applied cycle after      *)
(* cycle to an unchanged PID adjustment, for each precision and several    *)
(* maxOutputChange, the setpoint moved by the host between cycles.         *)
(***************************************************************************)
MaxRetargets == 2
MaxOutputChanges == {50, 200, 500, 2000}
ConvergeModes == {"heat", "cool"}
ConvergeTargets == {17000, 22000}
\* The PID adjustment held over the cycles, in 1/1000000 degree
ConvergeAdjustment == 1300000

ConvergeConfig(p, m, mode) ==
    [DefaultConfig EXCEPT !.precision = p, !.maxOutputChange = m, !.mode = mode]
InitConverge ==
    /\ \E p \in Precisions, m \in MaxOutputChanges, mode \in ConvergeModes :
          /\ controllerConfig = ConvergeConfig(p, m, mode)
          /\ c = Start(ConvergeConfig(p, m, mode), NoSavedState, NoSchedule)
    /\ now = StartTime
    /\ wasHeatingActive = FALSE
    /\ wasCoolingActive = FALSE
    /\ result = NoResult
    /\ op = "init"
    /\ boostIssued = NoBoostIssued
    /\ steps = 0

\* update l.138-179 outside the hysteresis band: the adjustment shaped,
\* rate limited, clamped and rounded, the setpoint stored
ConvergeCycle ==
    /\ c' = [c EXCEPT !.lastOutput = shapeSetpoint(c, ConvergeAdjustment, c.mode, FALSE)]
    /\ result' = [result EXCEPT !.out.output =
                      roundToPrecision(c, c'.lastOutput * 1000)]
    /\ op' = "cycle"
    /\ UNCHANGED <<controllerConfig, now, wasHeatingActive, wasCoolingActive,
                   boostIssued, steps>>
ConvergeSetpoint(temp) ==
    /\ steps < MaxRetargets
    /\ c.lastOutput # Null
    /\ temp # c.targetTemp
    /\ c' = setSetpoint(c, temp)
    /\ op' = "setter"
    /\ steps' = steps + 1
    /\ UNCHANGED <<controllerConfig, now, wasHeatingActive, wasCoolingActive,
                   result, boostIssued>>
NextConverge ==
    \/ ConvergeCycle
    \/ \E t \in ConvergeTargets : ConvergeSetpoint(t)
SpecConverge == InitConverge /\ [][NextConverge]_vars /\ WF_vars(ConvergeCycle)

(***************************************************************************)
(* Properties                                                              *)
(***************************************************************************)
\* The state follows a target resolution (update, syncSchedule or getStatus)
Resolved == op \in {"update", "syncSchedule", "getStatus"}
ClampToBounds(x) == clamp(x, c.minTemp, c.maxTemp)
\* The error of the last processed sample, target - current, unrounded
SampleError == result.out.targetTemp - result.out.currentTemp

\* C1: whenever boost is active and not expired, the effective target after a
\* target resolution (update or syncSchedule) is the temperature given to
\* setBoost clamped to [minTemp, maxTemp], whatever away mode, away
\* temperature, schedule, operating mode and base target are.
C1_BoostPriority ==
    (Resolved /\ c.boostActive /\ now <= c.boostEndTime)
        => c.targetTemp = ClampToBounds(boostIssued.temp)

C1_Witness ==
    /\ op = "update"
    /\ c.boostActive /\ now <= c.boostEndTime
    /\ c.awayMode /\ c.awayTemp < c.boostTemp
    /\ c.schedule.present
    /\ c.targetTemp = c.boostTemp

\* C2: for any two consecutive updates the emitted setpoints differ by at most
\* maxOutputChange plus one precision step, on every path of update and
\* whatever setters are called in between.
C2_RateLimitEveryPath ==
    [][(op' = "update" /\ result.out.trend # "none")
          => Abs(result'.out.output - result.out.output)
                 <= c.maxOutputChange + c.precision]_vars

\* C3: the integral accumulator is never negative, in every state reached
\* from a fresh controller by updates and setter calls.
C3_IntegralNonNegative == c.integral >= 0

C3_Witness ==
    /\ op = "update"
    /\ result.out.trend = "idle"
    /\ SampleError # 0
    /\ c.integral = 0

\* C4: every setpoint returned by update lies within [minTemp, maxTemp].
C4_SetpointWithinBounds ==
    op = "update" => (c.minTemp <= result.out.output /\ result.out.output <= c.maxTemp)

\* C5: on every processed sample outside off mode, with active mode heat the
\* active output is true if error > hysteresis and false if error <= 0; with
\* active mode cool it is true if error < -hysteresis and false if error >= 0.
C5_LatchThresholds ==
    (op = "update" /\ result.out.operatingMode # "off") =>
        /\ result.out.activeMode = "heat" =>
              /\ SampleError > c.hysteresis => result.isActive
              /\ SampleError <= 0 => ~result.isActive
        /\ result.out.activeMode = "cool" =>
              /\ SampleError < 0 - c.hysteresis => result.isActive
              /\ SampleError >= 0 => ~result.isActive

\* The boost request the controller holds was issued at t0 for D minutes
BoostWasIssued == boostIssued.t0 # Null
\* t0 + D minutes, and t0 + the whole minutes of D
BoostStatedEnd == boostIssued.t0 + boostIssued.durationTenths * 6
BoostWholeMinutesEnd == boostIssued.t0 + (boostIssued.durationTenths \div 10) * 60
BoostCleared == ~c.boostActive /\ c.boostTemp = Null /\ c.boostEndTime = Null
\* The schedule's value for the current time, or the base target
ScheduleOrManual ==
    IF c.schedule.present THEN getScheduledTemp(c, now) ELSE c.baseTargetTemp
AwayCapped(x) == IF c.awayMode THEN Min2(x, c.awayTemp) ELSE x

C7_AwayCeilingAsStated ==
    (Resolved /\ c.awayMode /\ ~c.boostActive) => c.targetTemp <= c.awayTemp

\* C7 (amended): ... is at most the away temperature, or minTemp when the
\* away temperature lies below minTemp.
C7_AwayCeiling ==
    (Resolved /\ c.awayMode /\ ~c.boostActive)
        => c.targetTemp <= Max2(c.awayTemp, c.minTemp)

C7_Witness ==
    /\ op = "update"
    /\ c.awayMode /\ ~c.boostActive
    /\ ScheduleOrManual > c.awayTemp
    /\ c.awayTemp >= c.minTemp
    /\ c.targetTemp = c.awayTemp

\* The slot the schedule supplies for the current time: today's slot with the
\* latest time at or before now, else the last slot of yesterday's list
ScheduleNow == getTimeInTimezone(c.schedule.timezone, now)
TodaySlots == c.schedule.days[ScheduleNow.dayIndex + 1]
YesterdaySlots == c.schedule.days[((ScheduleNow.dayIndex + 6) % 7) + 1]
DueToday ==
    {i \in 1..Len(TodaySlots) :
        slotMinutes(TodaySlots[i]) <= ScheduleNow.hours * 60 + ScheduleNow.minutes}
HasApplicableSlot == c.schedule.present /\ (DueToday # {} \/ Len(YesterdaySlots) > 0)
ApplicableSlotTemp ==
    IF DueToday # {}
    THEN TodaySlots[CHOOSE i \in DueToday : \A j \in DueToday :
                        slotMinutes(TodaySlots[j]) <= slotMinutes(TodaySlots[i])].temp
    ELSE YesterdaySlots[Len(YesterdaySlots)].temp

C9_LearningTimeout ==
    (/\ op = "update"
     /\ result.out.hasPidTerms
     /\ c.learningEnabled
     /\ c.learningStartTime # Null
     /\ now - c.learningStartTime > LearningTimeout)
        => (c.learningComplete /\ ~c.learningPhase)

\* C10: in thermal mode heat, an update whose reading exceeds the effective
\* target leaves the accumulator at most what it was and not negative; outside
\* off mode it emits the rounded target and subtracts |error| from the
\* accumulator, floored at 0.
C10_AntiWindup ==
    [][(op' = "update" /\ c'.mode = "heat" /\ result'.out.currentTemp > c'.targetTemp)
          => /\ c'.integral <= c.integral
             /\ c'.integral >= 0
             /\ c'.operatingMode # "off" =>
                   /\ result'.out.output = roundToPrecision(c', c'.targetTemp * 1000)
                   /\ c'.integral =
                        Max2(0, c.integral - (result'.out.currentTemp - c'.targetTemp))]_vars

C10_Witness ==
    /\ op = "update"
    /\ c.mode = "heat"
    /\ result.out.trend = "idle"
    /\ result.out.currentTemp > c.targetTemp
    /\ c.integral > 0

\* C11: on every update outside off mode, with active mode heat and
\* error >= hysteresis the emitted setpoint is at least target + precision;
\* with active mode cool and error <= -hysteresis it is at most
\* target - precision.
C11_MinimumStep ==
    (op = "update" /\ result.out.operatingMode # "off") =>
        /\ (result.out.activeMode = "heat" /\ SampleError >= c.hysteresis)
              => result.out.output >= result.out.targetTemp + c.precision
        /\ (result.out.activeMode = "cool" /\ SampleError <= 0 - c.hysteresis)
              => result.out.output <= result.out.targetTemp - c.precision

\* The trend of the stored window after the sample: falling when the newest of
\* the last trendWindowSize readings is more than 0.1 below the oldest
WindowFalling == detectTrend(c) = "cooling"
WindowRising == detectTrend(c) = "heating"

\* C12: after an update outside off mode with active mode heat, emitted
\* setpoint above target + precision, a falling trend window and
\* 0 < error <= hysteresis, the heating latch is on and the active output is
\* true.
C12_ProactiveHeating ==
    (/\ op = "update" /\ result.out.operatingMode # "off"
     /\ result.out.activeMode = "heat"
     /\ result.out.output > result.out.targetTemp + c.precision
     /\ WindowFalling
     /\ SampleError > 0 /\ SampleError <= c.hysteresis)
        => (wasHeatingActive /\ result.isActive)

\* C13: after an update outside off mode with active mode cool, emitted
\* setpoint below target - precision, a rising trend window and
\* -hysteresis <= error < 0, the cooling latch is on and the active output is
\* true.
C13_ProactiveCooling ==
    (/\ op = "update" /\ result.out.operatingMode # "off"
     /\ result.out.activeMode = "cool"
     /\ result.out.output < result.out.targetTemp - c.precision
     /\ WindowRising
     /\ SampleError < 0 /\ SampleError >= 0 - c.hysteresis)
        => (wasCoolingActive /\ result.isActive)

\* C14: once a sample has been processed in operating mode off, both latches
\* are inactive and the active output is false, and they stay so until the
\* next sample is processed: a controller leaving off starts with both
\* latches inactive.
C14_OffMode ==
    (result.out.operatingMode = "off")
        => (~wasHeatingActive /\ ~wasCoolingActive /\ ~result.isActive)

C14_Witness ==
    /\ op = "update" /\ result.out.operatingMode = "off"
    /\ c.mode = "heat" /\ c.lastOutput # Null
    /\ SampleError > c.hysteresis
    /\ ~wasHeatingActive /\ ~result.isActive

\* A sample has just been processed in thermal mode heat, outside off mode,
\* with the error magnitude below the hysteresis width
InDeadBandHeat ==
    /\ op' = "update"
    /\ c'.mode = "heat"
    /\ result'.out.operatingMode # "off"
    /\ Abs(result'.out.targetTemp - result'.out.currentTemp) < c'.hysteresis

Overshot ==
    /\ op = "update" /\ op' = "update"
    /\ result.out.operatingMode # "off" /\ result'.out.operatingMode # "off"
    /\ \/ /\ result.out.activeMode = "heat"
          /\ SampleError > 0
          /\ result'.out.targetTemp - result'.out.currentTemp < 0
       \/ /\ result.out.activeMode = "cool"
          /\ SampleError < 0
          /\ result'.out.targetTemp - result'.out.currentTemp > 0

\* C16: on an update cycle where the room has overshot the target since the
\* previous cycle (the error changed sign), the integral accumulator does not
\* increase, in thermal modes heat, cool and heat_cool.
C16_OvershootUnwinds ==
    [][Overshot => c'.integral <= c.integral]_vars

\* The controller the node would construct anew from its config
Fresh == Constructor(controllerConfig)

\* The fields of the stated round trip: ControlState, LearningState, schedule,
\* boost and away state, thermal mode, operating mode, base target
StatedRoundTripFields ==
    {"Kp", "Ki", "Kd", "integral", "lastError", "lastTemp", "lastOutput",
     "lastUpdateTime", "learningPhase", "learningComplete", "temperatureHistory",
     "performanceHistory", "learningStartTime", "schedule", "boostActive",
     "boostTemp", "boostEndTime", "awayMode", "awayTemp", "mode", "operatingMode",
     "baseTargetTemp"}
SnapshotOmits == {"lastUpdateTime", "learningStartTime"}
EqualOn(restored, fields) == \A f \in fields : restored[f] = c[f]
FreshOn(restored, fresh, fields) == \A f \in fields : restored[f] = fresh[f]

\* C17 as stated: for any reachable controller c, setState(c.getState()) on a
\* fresh controller of the same config equals c on gains, integral, last
\* error, last temperature, last setpoint, last update instant, learning
\* flags, both histories, learning start instant, schedule, boost and away
\* state, thermal mode, operating mode and base target.
C17_RoundTripAsStated ==
    EqualOn(setState(Fresh, getState(c)), StatedRoundTripFields)

\* C17: the round trip equals c on every stated field except the two
\* instants: the last update instant and the learning start instant are not
\* in the snapshot and come back as those of the fresh controller (null).
RoundTripHolds(restored, fresh) ==
    /\ EqualOn(restored, StatedRoundTripFields \ SnapshotOmits)
    /\ FreshOn(restored, fresh, SnapshotOmits)
C17_RoundTrip == RoundTripHolds(setState(Fresh, getState(c)), Fresh)

\* A controller that differs from a fresh one in gains, integral, learning
\* flags, histories, boost and both instants
C17_Witness ==
    /\ op = "update"
    /\ c.lastUpdateTime # Null /\ c.learningStartTime # Null
    /\ c.Kp # DefaultKp /\ c.integral > 0
    /\ ~c.learningPhase /\ c.learningComplete
    /\ Len(c.performanceHistory) > 0
    /\ c.boostActive

\* State objects handed to setState: none, one of an older release, and one
\* cut down to the gains and the last setpoint
PartialStates ==
    {NoSavedState, SavedTuned,
     [SavedLearningMaxGain EXCEPT !.has = {"Kp", "Ki", "Kd", "lastOutput"}]}

\* The fields setState assigns from a state object
Assigned(state) == IF state.present THEN StateFields \cap state.has ELSE {}
FrameHolds(restored, state) ==
    /\ DOMAIN restored = DOMAIN c
    /\ \A f \in DOMAIN c \ Assigned(state) : restored[f] = c[f]
    /\ \A f \in Assigned(state) : restored[f] = state[f]

\* C18: setState with an object that omits fields, or with null/undefined,
\* leaves every field absent from the object at the value it had before the
\* call and assigns only the fields present.
C18_PartialRestore ==
    \A state \in PartialStates : FrameHolds(setState(c, state), state)

\* A controller that has run, and an object that differs from it both on a
\* field it omits and on a field it holds
C18_Witness ==
    /\ op = "update"
    /\ \E state \in PartialStates :
          /\ state.present
          /\ state.integral # c.integral /\ "integral" \notin state.has
          /\ state.Kp # c.Kp /\ "Kp" \in state.has
          /\ setState(c, state).integral = c.integral
          /\ setState(c, state).Kp = state.Kp

\* C19: the parameters-changed flag is one-shot: the input handler reads it
\* after every update, the read resets it, so in every state between handler
\* calls the flag is down and a further read returns false and leaves it
\* down.
C19_OneShotFlag ==
    /\ ~c.parametersChanged
    /\ ~hasParametersChanged(c).parametersChanged

\* An update raised the flag, the handler read true, and the flag is down
C19_Witness ==
    /\ op = "update"
    /\ result.saved
    /\ ~c.parametersChanged

\* The update just processed changed a gain
GainsChanged == c'.Kp # c.Kp \/ c'.Ki # c.Ki \/ c'.Kd # c.Kd

\* The update just processed took the PID branch while learning and its
\* estimate of the thermal characteristics was conclusive: adaptPIDParameters
\* ran
Conclusive(characteristics) ==
    characteristics.timeConstant > 0 /\ characteristics.deadTime > 0
TuningRan ==
    /\ c.learningPhase /\ ~c.learningComplete
    /\ result'.out.trend \notin {"idle", "off"}
    /\ Len(c'.temperatureHistory) >= samplesNeeded
    /\ Conclusive(estimateThermalCharacteristics(c'))

\* C20 as stated: an update raises the parameters-changed flag exactly when
\* it changed at least one of Kp, Ki, Kd.
C20_FlagIffGainsChangedAsStated ==
    [][op' = "update" => (result'.saved <=> GainsChanged)]_vars

\* C20, what the flag follows instead: an update raises it exactly when it
\* ran the learning-phase tuning or changed Kp or Kd; a change of Ki alone,
\* made by the clamp of continuous adaptation, does not raise it.
C20_FlagOnTuningOrKpKd ==
    [][op' = "update" =>
          (result'.saved <=> (TuningRan \/ c'.Kp # c.Kp \/ c'.Kd # c.Kd))]_vars

\* Learning-phase tuning has just run on gains already at the tuned values:
\* the flag was raised and the gains are those of the configuration
C20_Witness ==
    /\ op = "update"
    /\ result.saved
    /\ controllerConfig = MaxGainConfig
    /\ c.learningComplete /\ ~c.learningPhase
    /\ c.Kp = KpMax /\ c.Ki = KiMax /\ c.Kd = KdMax

\* C26: the learning state machine is one-way: once learningPhase is false no
\* update and no setter call (setSetpoint, setOperatingMode, setMode,
\* setSchedule, setBoost, setAwayMode) makes it true again, and learningPhase
\* and learningComplete are never both true.
C26_LearningOneWay ==
    /\ [](~(c.learningPhase /\ c.learningComplete))
    /\ [][~c.learningPhase => ~c'.learningPhase]_vars

\* A controller that learned in this run, left the learning phase on an
\* update and has since been handed a setter call
C26_Witness ==
    /\ op = "setter"
    /\ c.learningEnabled /\ c.learningStartTime # Null
    /\ ~c.learningPhase /\ c.learningComplete
    /\ result.out.state = "running"

\* The update just processed took the PID branch outside the learning phase
\* and brought the performance history to a multiple of adaptationInterval:
\* continuousAdaptation ran
AdaptationRan ==
    /\ ~c'.learningPhase
    /\ result'.out.trend \notin {"idle", "off"}
    /\ Len(c'.performanceHistory) >= adaptationInterval
    /\ Len(c'.performanceHistory) % adaptationInterval = 0
GainsInBounds(ctl) ==
    /\ KpMin <= ctl.Kp /\ ctl.Kp <= KpMax
    /\ KiMin <= ctl.Ki /\ ctl.Ki <= KiMax
    /\ KdMin <= ctl.Kd /\ ctl.Kd <= KdMax

\* C27: immediately after every learning-phase tuning step and every
\* continuous-adaptation step the gains satisfy 0.1 <= Kp <= 5.0,
\* 0.001 <= Ki <= 0.5 and 0.0 <= Kd <= 2.0, whatever the estimate and the
\* gains before the step.
C27_GainBounds ==
    [][(op' = "update" /\ (TuningRan \/ AdaptationRan)) => GainsInBounds(c')]_vars

\* Continuous adaptation has just run on a controller whose Ki came from its
\* state file above the upper bound: Ki is at the bound and Kp has moved
C27_Witness ==
    /\ op = "update"
    /\ ~c.learningPhase
    /\ Len(c.performanceHistory) = adaptationInterval
    /\ SavedTuned.Ki > KiMax
    /\ c.Ki = KiMax
    /\ c.Kp # SavedTuned.Kp

\* C29: after every target resolution (each update and each syncSchedule or
\* getStatus call) the effective target lies within [minTemp, maxTemp],
\* whatever boost, away, schedule or manual value was selected.
C29_TargetWithinBounds ==
    Resolved => (c.minTemp <= c.targetTemp /\ c.targetTemp <= c.maxTemp)

\* getStatus has just resolved the target from an away temperature held below
\* minTemp: the target is minTemp
C29_Witness ==
    /\ op = "getStatus"
    /\ c.awayMode /\ ~c.boostActive
    /\ c.awayTemp < c.minTemp
    /\ c.targetTemp = c.minTemp

\* A sample has just been processed outside off mode with the reading inside
\* the hysteresis band
InBand ==
    /\ op' = "update"
    /\ result'.out.operatingMode # "off"
    /\ Abs(result'.out.targetTemp - result'.out.currentTemp) < c'.hysteresis
RoundedTarget(ctl) == roundToPrecision(ctl, ctl.targetTemp * 1000)

CycleDt ==
    IF c.lastUpdateTime # Null /\ c.lastUpdateTime # 0 THEN now' - c.lastUpdateTime
    ELSE c.sampleInterval
CycleGains == IF TuningRan THEN c' ELSE c
CycleError == result'.out.targetTemp - result'.out.currentTemp
CycleAdjustment ==
    CycleGains.Kp * Abs(CycleError) + CycleGains.Ki * c'.integral
        + (IF CycleDt > 0
           THEN (CycleGains.Kd * (Abs(CycleError) - Abs(c.lastError))) \div CycleDt
           ELSE 0)
\* target +/- adjustment, held within maxOutputChange of the previous
\* setpoint, clamped to [minTemp, maxTemp] and rounded to the precision step
PidSetpoint ==
    LET raw == IF result'.out.activeMode = "cool"
               THEN c'.targetTemp * 1000 - CycleAdjustment
               ELSE c'.targetTemp * 1000 + CycleAdjustment
        previous == c.lastOutput * 1000
        reach == c'.maxOutputChange * 1000
        limited == IF c.lastOutput = Null THEN raw
                   ELSE IF raw > previous + reach THEN previous + reach
                   ELSE IF raw < previous - reach THEN previous - reach
                   ELSE raw
    IN roundToPrecision(c', clamp(limited, c'.minTemp * 1000, c'.maxTemp * 1000))

SlotsAscending(daySchedule) ==
    \A i \in 1..(Len(daySchedule) - 1) :
        slotMinutes(daySchedule[i]) < slotMinutes(daySchedule[i + 1])
OrderedWeek(schedule) == \A d \in 1..7 : SlotsAscending(schedule.days[d])

\* C24: for a schedule whose day lists are ordered by time of day,
\* getScheduledTemp returns the temperature of the slot of the current
\* weekday, in the schedule's timezone, with the latest time at or before the
\* current time; when the current weekday has no such slot (empty day, or
\* first slot later than now) it returns the temperature of the last slot of
\* the previous weekday.
C24_ScheduleLookup ==
    (c.schedule.present /\ OrderedWeek(c.schedule) /\ HasApplicableSlot)
        => /\ getScheduledTemp(c, now) = ApplicableSlotTemp
           /\ Resolved => c.targetTemp = ClampToBounds(ApplicableSlotTemp)

\* Monday slots at 06:00 and 22:00 only, resolved on a Tuesday at 02:00: the
\* target is Monday's 22:00 temperature
C24_Witness ==
    /\ op = "syncSchedule"
    /\ c.schedule = MondayOnlySchedule
    /\ ScheduleNow.dayIndex = 2 /\ ScheduleNow.hours = 2 /\ ScheduleNow.minutes = 0
    /\ DueToday = {}
    /\ c.targetTemp = 18000

\* C25: when the schedule has a `default' temperature and neither the
\* current weekday nor the previous one supplies an applicable slot, the
\* scheduled temperature is the schedule's default.
C25_ScheduleDefault ==
    (c.schedule.present /\ c.schedule.default # Null /\ ~HasApplicableSlot)
        => getScheduledTemp(c, now) = c.schedule.default

\* The last n elements of a sequence
LastN(seq, n) == IF Len(seq) <= n THEN seq ELSE SubSeq(seq, Len(seq) - n + 1, Len(seq))
\* The update just processed recorded its sample (every branch but off)
Recorded == op' = "update" /\ result'.out.trend # "off"
\* The update just processed tracked its error (PID branch, learning over)
Tracked == op' = "update" /\ result'.out.hasPidTerms /\ ~c'.learningPhase
HistoryCapsHold ==
    /\ Len(c.performanceHistory) <= PerformanceCap
    /\ Len(c.trendWindow) <= trendWindowSize
    /\ \A i \in 1..(Len(c.temperatureHistory) - 1) :
          c.temperatureHistory[i].timestamp <= c.temperatureHistory[i + 1].timestamp
    /\ \A i \in 1..Len(c.temperatureHistory) :
          c.temperatureHistory[i].timestamp >
              c.temperatureHistory[Len(c.temperatureHistory)].timestamp - HistoryWindow
NewestSample == [temp |-> result'.out.currentTemp, timestamp |-> now']
WithinTheHour(sample) == sample.timestamp > now' - HistoryWindow

\* What a tracking update and a recording update do to the histories
TrackedOldestFirst ==
    Tracked =>
        c'.performanceHistory =
            LastN(Append(c.performanceHistory, Abs(CycleError)), PerformanceCap)
RecordedMostRecent ==
    Recorded =>
        /\ c'.trendWindow =
               LastN(Append(c.trendWindow, result'.out.currentTemp), trendWindowSize)
        /\ c'.temperatureHistory =
               SelectSeq(Append(c.temperatureHistory, NewestSample), WithinTheHour)

\* C28: after every update the performance history holds at most 1000
\* entries, the oldest evicted first; the temperature history is ordered by
\* non-decreasing timestamp and holds only samples of the hour before the
\* newest one; the trend window holds at most the 5 most recent temperatures.
C28_HistoryBounds ==
    /\ [](op = "update" => HistoryCapsHold)
    /\ [][TrackedOldestFirst /\ RecordedMostRecent]_vars

\* After six recorded samples, one of them more than an hour after the one
\* before: the performance history is at its cap and has lost its oldest
\* entries, the trend window holds five temperatures and the temperature
\* history has dropped samples
C28_Witness ==
    /\ op = "update"
    /\ steps = MaxSamples
    /\ Len(c.performanceHistory) = PerformanceCap
    /\ c.performanceHistory[1] # SavedFullHistory.performanceHistory[1]
    /\ Len(c.trendWindow) = trendWindowSize
    /\ Len(c.temperatureHistory) < trendWindowSize

\* An update whose schedule lookup threw
Threw == op \in {"update", "update(NaN)"} /\ result.threw

\* C23: update never aborts: whatever object setSchedule accepted, every
\* update returns a result record with a setpoint and no error escapes
C23_UpdateNeverAborts ==
    op = "update" => (~result.threw /\ result.out.output # Null)

\* C23, as the code has it: with a schedule whose day lists hold only
\* {time: "HH:MM", temp} slots, update returns a result record with a setpoint
WellFormed(schedule) ==
    \A d \in 1..7 : \A i \in 1..Len(schedule.days[d]) :
        schedule.days[d][i].shape = "slot"
C23_WellFormedNeverAborts ==
    (op = "update" /\ WellFormed(c.schedule))
        => (~result.threw /\ result.out.output # Null)
C23_Witness ==
    /\ op = "update"
    /\ c.schedule.present
    /\ WellFormed(c.schedule)
    /\ result.out.output # Null

\* The argument is a number other than NaN, or a string that is a number from
\* its first character to its last
NumericValue(v) ==
    \/ v.type = "number" /\ v.num # NaN
    \/ /\ v.type = "string"
       /\ ScanNumber(v.text).digits > 0
       /\ SkipSpaces(v.text, 1) = 1
       /\ ScanNumber(v.text).end = Len(v.text) + 1
ValueOf(v) == IF v.type = "number" THEN v.num ELSE ScanNumber(v.text).value

\* The calls the setters are stated to ignore
InvalidCall(call) ==
    CASE call.setter = "setSetpoint" -> ~(call.arg.type = "number" /\ call.arg.num # NaN)
      [] call.setter = "setOperatingMode" -> call.mode \notin {"manual", "schedule", "off"}
      [] call.setter = "setMode" ->
             call.mode \notin {"heat", "cool", "heat_cool", "heating", "cooling", "auto"}
      [] call.setter = "setSchedule" -> call.arg.type # "object"
      [] call.setter = "setBoost" ->
             /\ ~(call.arg.type = "boolean" /\ ~call.arg.flag)
             /\ ~(/\ call.arg.type = "object"
                  /\ NumericValue(call.arg.temp)
                  /\ NumericValue(call.arg.duration)
                  /\ ValueOf(call.arg.duration) > 0)
      [] call.setter = "setAwayMode" ->
             ~(call.arg.type = "boolean" \/ (call.arg.type = "number" /\ call.arg.num # NaN))

\* C21: a setter called with invalid input leaves every field of the
\* controller unchanged
C21_InvalidSetterIgnored ==
    [][\A call \in RawCalls : (InvalidCall(call) /\ RawCall(call)) => c' = c]_vars

\* The invalid calls setBoost reads a number out of: parseFloat and parseInt
\* stop at the first character that cannot continue a number
PrefixRead(call) == call.setter = "setBoost" /\ BoostAccepted(call.arg)

\* C21, as the code has it: a setter called with invalid input leaves every
\* field of the controller unchanged, unless it is setBoost with an object
\* whose temp and duration begin with a number
C21_UnreadableSetterIgnored ==
    [][\A call \in RawCalls :
          (InvalidCall(call) /\ ~PrefixRead(call) /\ RawCall(call)) => c' = c]_vars
C21_Witness ==
    /\ \E call \in RawCalls : InvalidCall(call) /\ ~PrefixRead(call) /\ op = call.js
    /\ c.integral > 0

\* C22: update called with NaN leaves the accumulator, the last error, the
\* last setpoint and the histories as they were
C22_InvalidReadingRetainsState ==
    [][op' = "update(NaN)" =>
          /\ c'.integral = c.integral
          /\ c'.lastError = c.lastError
          /\ c'.lastOutput = c.lastOutput
          /\ c'.temperatureHistory = c.temperatureHistory
          /\ c'.performanceHistory = c.performanceHistory]_vars

\* C22, as the node has it: a payload that is no number is discarded before
\* update is called, and the controller, the latches and the last result
\* stay as they were
C22_NodeDiscardsInvalidPayload ==
    [][op' = "invalidPayload" =>
          /\ c' = c
          /\ result' = result
          /\ wasHeatingActive' = wasHeatingActive
          /\ wasCoolingActive' = wasCoolingActive]_vars
C22_Witness == op = "invalidPayload" /\ c.integral > 0 /\ c.lastOutput # Null

\* C31: syncSchedule called at an instant later than the stored boost expiry,
\* with no update since, resolves the target to the schedule or base value
\* capped by the away temperature, not to the boost temperature
C31_SyncAfterExpiry ==
    (op = "syncSchedule" /\ c.boostActive /\ c.boostEndTime # Null
        /\ now > c.boostEndTime)
        => c.targetTemp = ClampToBounds(AwayCapped(ScheduleOrManual))

\* C31, as the code has it: syncSchedule resolves the target to the boost
\* temperature whenever the boost flag is set, expired or not, and leaves the
\* boost as it is
C31_SyncKeepsStaleBoost ==
    [][op' = "syncSchedule" =>
          /\ c'.boostActive = c.boostActive
          /\ c'.boostEndTime = c.boostEndTime
          /\ (c.boostActive /\ c.boostTemp # Null)
                 => c'.targetTemp = clamp(c.boostTemp, c.minTemp, c.maxTemp)]_vars
C31_Witness ==
    /\ op = "syncSchedule"
    /\ c.boostActive /\ c.boostEndTime # Null /\ now > c.boostEndTime
    /\ c.targetTemp = c.boostTemp
    /\ c.targetTemp # ClampToBounds(AwayCapped(ScheduleOrManual))

\* The controller is as setSetpoint leaves it, for one of the setpoints given
SetpointJustGiven == op = "setter" /\ \E t \in Setpoints : c = setSetpoint(c, t)

\* C32: in operating mode manual, without boost or away, the update that
\* follows a setSetpoint resolves the effective target to the setpoint given,
\* clamped, whether or not a schedule is configured
C32_ManualSetpointPriority ==
    [][(SetpointJustGiven /\ op' = "update" /\ c.operatingMode = "manual"
           /\ ~c.boostActive /\ ~c.awayMode)
          => c'.targetTemp = c.baseTargetTemp]_vars

\* C33: syncSchedule leaves every field but targetTemp as it was, and a second
\* call at the same instant returns the same value and changes nothing
C33_SyncIdempotent ==
    [][op' = "syncSchedule" =>
          /\ [c' EXCEPT !.targetTemp = c.targetTemp] = c
          /\ syncSchedule(c', now') = c']_vars
C33_Witness ==
    /\ op = "syncSchedule"
    /\ c.integral > 0
    /\ result.out.targetTemp # Null
    /\ c.targetTemp # result.out.targetTemp

\* roundToPrecision(x) is a multiple of the precision within half a step of x
RoundedWithinHalfStep(x) ==
    /\ roundToPrecision(c, x) % c.precision = 0
    /\ 2 * Abs(roundToPrecision(c, x) * 1000 - x) <= c.precision * 1000

\* C34: for every value x and every precision in {1, 0.5, 0.2, 0.1},
\* roundToPrecision(x) is an integer multiple of the precision and differs
\* from x by at most half the precision; every setpoint update emits is a
\* multiple of the precision
C34_Rounding ==
    /\ c.precision \in Precisions
    /\ \A x \in RoundInputs : RoundedWithinHalfStep(x)
    /\ op = "update" =>
          /\ result.out.output % c.precision = 0
          /\ result.out.trend = "idle" => RoundedWithinHalfStep(c.targetTemp * 1000)
          /\ result.out.trend = "idle" =>
                 result.out.output = roundToPrecision(c, c.targetTemp * 1000)
C34_Witness ==
    /\ op = "update"
    /\ result.out.trend = "idle"
    /\ c.precision = 200
    /\ c.targetTemp % c.precision # 0
    /\ result.out.output % c.precision = 0
    /\ result.out.output # c.targetTemp

\* An update outside off mode whose sample is below the target by no more
\* than the hysteresis and does not meet the proactive-heating condition
SmallDemand ==
    /\ op' = "update"
    /\ result'.out.operatingMode # "off"
    /\ result'.out.targetTemp - result'.out.currentTemp > 0
    /\ result'.out.targetTemp - result'.out.currentTemp <= c'.hysteresis
    /\ ~(/\ result'.out.output > result'.out.targetTemp + c'.precision
         /\ result'.out.trend = "cooling")

\* C35: in thermal modes heat and heat_cool, a sample with error <= 0 leaves
\* the heating output inactive, and a sample with 0 < error <= hysteresis
\* that follows it, without the proactive-heating condition, does not turn
\* the active output on
C35_StickyRelease ==
    [][/\ (op' = "update" /\ result'.out.operatingMode # "off"
           /\ c'.mode \in {"heat", "heat_cool"}
           /\ result'.out.targetTemp - result'.out.currentTemp <= 0)
          => ~(result'.isActive /\ result'.out.activeMode = "heat")
       /\ (op = "update" /\ result.out.operatingMode # "off" /\ SampleError <= 0
           /\ c.mode \in {"heat", "heat_cool"} /\ c'.mode = c.mode
           /\ SmallDemand)
          => ~result'.isActive]_vars

\* C35, as the code has it: in thermal mode heat a sample with error <= 0
\* clears the heating latch, and a sample with 0 < error <= hysteresis
\* without the proactive-heating condition leaves a cleared latch cleared and
\* the active output off
C35_StickyReleaseHeat ==
    [][(op' = "update" /\ result'.out.operatingMode # "off" /\ c'.mode = "heat") =>
          /\ result'.out.targetTemp - result'.out.currentTemp <= 0
                 => (~wasHeatingActive' /\ ~result'.isActive)
          /\ (SmallDemand /\ ~wasHeatingActive)
                 => (~wasHeatingActive' /\ ~result'.isActive)]_vars
C35_Witness ==
    /\ op = "update" /\ result.out.operatingMode # "off" /\ c.mode = "heat"
    /\ SampleError > 0 /\ SampleError <= c.hysteresis
    /\ c.lastOutput # Null /\ Len(c.trendWindow) >= 2
    /\ ~wasHeatingActive /\ ~result.isActive

\* The last operation was an update that tracked its error and ran
\* continuousAdaptation (trackPerformance l.389-392)
AdaptedLast ==
    /\ op = "update" /\ result.out.hasPidTerms /\ ~c.learningPhase
    /\ Len(c.performanceHistory) >= adaptationInterval
    /\ Len(c.performanceHistory) % adaptationInterval = 0
SameGains(a, b) == a.Kp = b.Kp /\ a.Ki = b.Ki /\ a.Kd = b.Kd

\* C36: continuous adaptation runs once per 100 tracked samples: the tracked
\* sample that follows an adaptation step leaves the gains as they are,
\* whatever the length of the performance history
C36_AdaptationCadence ==
    [][(AdaptedLast /\ Tracked) => SameGains(c', c)]_vars

\* C36, as the code has it: a tracked sample runs continuousAdaptation exactly
\* when the performance history, after the append and the eviction, has a
\* length that is a multiple of 100; at the cap of 1000 that is every sample
C36_AdaptsOnMultipleLength ==
    [][(Tracked /\ ~TuningRan) =>
          IF Len(c'.performanceHistory) % adaptationInterval = 0
          THEN SameGains(c', continuousAdaptation(
                                 [c EXCEPT !.performanceHistory = c'.performanceHistory]))
          ELSE SameGains(c', c)]_vars
C36_Witness ==
    /\ AdaptedLast
    /\ Len(c.performanceHistory) = PerformanceCap
    /\ c.performanceHistory[1] # SavedFullHistory.performanceHistory[1]
    /\ c.Kp > (SavedFullHistory.Kp * 102) \div 100

\* C37: an update processed in operating mode off returns minTemp rounded to
\* the precision and changes nothing but the last update instant, the boost
\* state and the effective target (and the one-shot flag the node consumes)
C37_OffModeFrame ==
    [][(op' = "update" /\ result'.out.operatingMode = "off") =>
          /\ result'.out.output = roundToPrecision(c, c.minTemp * 1000)
          /\ [c' EXCEPT !.lastUpdateTime = c.lastUpdateTime,
                        !.boostActive = c.boostActive,
                        !.boostTemp = c.boostTemp,
                        !.boostEndTime = c.boostEndTime,
                        !.targetTemp = c.targetTemp,
                        !.parametersChanged = c.parametersChanged] = c
          /\ c'.lastUpdateTime = now'
          /\ c'.boostActive => (c.boostActive /\ c'.boostTemp = c.boostTemp
                                  /\ c'.boostEndTime = c.boostEndTime)]_vars
C37_Witness ==
    /\ op = "update" /\ result.out.operatingMode = "off"
    /\ c.lastError # 0
    /\ Len(c.temperatureHistory) > 0
    /\ c.lastOutput # Null /\ c.lastOutput # result.out.output
    /\ c.lastTemp # result.out.currentTemp

\* C39: after reset() the gains, integral accumulator, last error,
\* temperature, setpoint and update instant, learning flags, learning start
\* instant, histories and parameters-changed flag equal those of a controller
\* freshly constructed with the same config
FreshFields(ctl) ==
    <<ctl.Kp, ctl.Ki, ctl.Kd, ctl.integral, ctl.lastError, ctl.lastTemp,
      ctl.lastOutput, ctl.lastUpdateTime, ctl.learningPhase,
      ctl.learningComplete, ctl.learningStartTime, ctl.temperatureHistory,
      ctl.performanceHistory, ctl.trendWindow, ctl.parametersChanged>>
C39_ResetIsFresh ==
    op = "reset" => FreshFields(c) = FreshFields(Constructor(controllerConfig))
\* C39 as the code has it: everything but the gains equals the fresh
\* controller; the gains are the literals of reset(), whatever the config
C39_ResetButGains ==
    op = "reset" =>
        /\ FreshFields([c EXCEPT !.Kp = 0, !.Ki = 0, !.Kd = 0, !.parametersChanged = FALSE])
             = FreshFields([Constructor(controllerConfig)
                              EXCEPT !.Kp = 0, !.Ki = 0, !.Kd = 0])
        /\ c.Kp = ResetKp /\ c.Ki = ResetKi /\ c.Kd = ResetKd
C39_Witness ==
    /\ op = "reset" /\ steps = MaxResetSteps + 1
    /\ result.out # NoOutput
    /\ c.Ki # Constructor(controllerConfig).Ki

\* C38: with the unlimited raw setpoint held at r over consecutive cycles,
\* the emitted setpoint ends up, and stays, at r clamped and rounded, for each
\* precision and each positive maxOutputChange
ConvergeGoal ==
    shapeSetpoint([c EXCEPT !.lastOutput = Null], ConvergeAdjustment, c.mode, FALSE)
C38_Converges == <>[](c.lastOutput = ConvergeGoal)
\* C38 as the code has it: a rate-limited cycle moves the setpoint toward r
\* clamped and rounded when maxOutputChange exceeds half the precision
C38_MovesWhenChangeExceedsHalfStep ==
    [][(op' = "cycle" /\ c.lastOutput # Null /\ c.lastOutput # ConvergeGoal
          /\ 2 * c.maxOutputChange > c.precision) =>
            Abs(c'.lastOutput - ConvergeGoal) < Abs(c.lastOutput - ConvergeGoal)]_vars
C38_Witness ==
    /\ op = "cycle" /\ steps > 0
    /\ c.lastOutput # ConvergeGoal
    /\ shapeSetpoint(c, ConvergeAdjustment, c.mode, FALSE) = c.lastOutput
    /\ c.precision = DefaultPrecision

====
